---- MODULE Spec2Model ----
(***************************************************************************)
(* TempoTuner: the pitch-to-note and note-stability engine.                *)
(*                                                                         *)
(* Frequencies are integers counting quarters of a hertz, so that the      *)
(* halving done by the octave correction and the mean of two buffer        *)
(* entries taken by the median filter are exact.  Values that are absent   *)
(* in the program (null) are the empty sequence, present values a          *)
(* one-element sequence.                                                   *)
(***************************************************************************)
EXTENDS Integers, Sequences, FiniteSets, TLC

VARIABLES
    \* NoteDetector (hysteresis revision), src/utils/note-detector.ts:88-200
    frequencyBuffer,      \* private frequencyBuffer: number[]
    lastValidNoteInfo,    \* private lastValidNoteInfo: NoteInfo | null
    noteHoldCounter,      \* private noteHoldCounter: number
    \* what the last call was and what it returned
    call,                 \* the last operation on the detector and its inputs
    ret,                  \* the value the last detectNote call returned
    history,              \* the note mapped and the note returned by the last two
                          \* calls with frequency > 0 since construction or reset
    \* a second NoteDetector, given the same frequencies with another useFlats
    frequencyBuffer2,
    lastValidNoteInfo2,
    noteHoldCounter2,
    ret2,
    \* useTuner (median-filter revision), src/hooks/use-tuner.ts:44-271
    state,                \* the hook's React state, one field per useState
    refs,                 \* the hook's refs, one field per useRef: audioAnalyzerRef and
                          \* noteDetectorRef say whether the object exists (the
                          \* detector's fields are the variables above),
                          \* analysisIntervalRef whether the interval is scheduled,
                          \* signalHoldTimerRef the pending hold timer as the number
                          \* of analysis periods until it is due
    analyzer,             \* the AudioAnalyzer's fields (src/utils/audio-analyzer.ts:6-11)
    lifecycle,            \* "mounted" (init timer pending), "initializing" (startTuner
                          \* awaits initialize()), "started", "failed", "stopped"
    mounted,              \* FALSE once the effect's cleanup has run
    \* what the last step of the hook was
    lastOp,
    silentRun,            \* consecutive analysed frames without signal
    noCandidateRun,       \* consecutive analysed frames that gave no candidate
    pending               \* the deferred note switches (setTimeout callbacks) not yet
                          \* run, oldest first (adaptive-threshold revision)

detectorVars == <<frequencyBuffer, lastValidNoteInfo, noteHoldCounter>>
traceVars == <<call, ret, history>>
secondVars == <<frequencyBuffer2, lastValidNoteInfo2, noteHoldCounter2, ret2>>
hookVars == <<state, refs, analyzer, lifecycle, mounted, lastOp, silentRun, noCandidateRun,
              pending>>
vars == <<detectorVars, traceVars, secondVars, hookVars>>

None == <<>>
Some(x) == <<x>>
IsSome(o) == o # <<>>
Get(o) == o[1]

Hz(n) == 4 * n

Abs(x) == IF x < 0 THEN -x ELSE x

(***************************************************************************)
(* Math.log2, in units of 2^-20 octave (accurate to about 0.002 cents):    *)
(* the binary logarithm of a whole number of quarter hertz, digit by digit *)
(* by repeated squaring of the mantissa, tabulated up to MaxHz.            *)
(***************************************************************************)
MaxHz == 2100

\* x * x / 2^20 for x < 2^21, without leaving 32 bits
Square20(x) ==
    LET a == x \div 1024
        b == x % 1024
    IN  a * a + ((2 * a * b + ((b * b) \div 1024)) \div 1024)

RECURSIVE Log2Frac(_, _)
Log2Frac(x, k) ==
    IF k = 0 THEN 0
    ELSE LET s == Square20(x)
         IN  IF s >= 2097152
             THEN 2 ^ (k - 1) + Log2Frac(s \div 2, k - 1)
             ELSE Log2Frac(s, k - 1)

RECURSIVE FloorLog2(_)
FloorLog2(n) == IF n < 2 THEN 0 ELSE 1 + FloorLog2(n \div 2)

Log2Fixed(n) ==
    LET e == FloorLog2(n)
    IN  e * 1048576 + Log2Frac(n * 2 ^ (20 - e), 20)

LOG2 == [n \in 1..Hz(MaxHz) |-> Log2Fixed(n)]

\* Math.log2(f / r): whole octaves and the fraction of an octave
Log2Ratio(f, r) ==
    LET d == LOG2[f] - LOG2[r]
    IN  [int |-> d \div 1048576, frac |-> d % 1048576]

\* Math.round(k * Math.log2(f / r)), for k = 12 and k = 1200
RoundLog2(k, f, r) ==
    LET l == Log2Ratio(f, r)
    IN  k * l.int + ((k * l.frac + 524288) \div 1048576)

\* JavaScript's % truncates toward zero
JsRem(n, m) == IF n >= 0 THEN n % m ELSE -((-n) % m)

\* the JavaScript remainder alone, negative for a negative note number
positiveModTruncating(n, m) == JsRem(n, m)

positiveMod(n, m) == JsRem(JsRem(n, m) + m, m)

NOTES_SHARP == <<"C", "C#", "D", "D#", "E", "F", "F#", "G", "G#", "A", "A#", "B">>
NOTES_FLAT  == <<"C", "Db", "D", "Eb", "E", "F", "Gb", "G", "Ab", "A", "Bb", "B">>

DEFAULT_A4_FREQ == Hz(440)

\* exactFrequency = referenceFreq * 2^(roundedSemitone / 12) is kept as the
\* pair (referenceFreq, roundedSemitone); cents against it are
\* round(1200 * log2(frequency / referenceFreq) - 100 * roundedSemitone).
CentsAgainst(frequency, exact) ==
    LET l == Log2Ratio(frequency, exact.ref)
    IN  1200 * l.int - 100 * exact.semi + ((1200 * l.frac + 524288) \div 1048576)

\* a tuning status with limits of 10 cents
TuningStatusWithinTen(cents) ==
    IF cents < -10 THEN "flat" ELSE IF cents > 10 THEN "sharp" ELSE "in-tune"

TuningStatusOf(cents) ==
    IF cents < -5 THEN "flat" ELSE IF cents > 5 THEN "sharp" ELSE "in-tune"

\* an exact frequency taken from the default reference pitch
exactFrequencyOfDefaultA4(referenceFreq, roundedSemitone) ==
    [ref |-> DEFAULT_A4_FREQ, semi |-> roundedSemitone]

\* referenceFreq * Math.pow(2, roundedSemitone / 12)
exactFrequencyOf(referenceFreq, roundedSemitone) ==
    [ref |-> referenceFreq, semi |-> roundedSemitone]

\* the result of findClosestNote when noteIndex is no index of the alphabets
UnknownNote(frequency) ==
    [note |-> "?", noteName |-> "?", octave |-> 0, frequency |-> frequency,
     exactFrequency |-> [ref |-> frequency, semi |-> 0],
     cents |-> 0, tuningStatus |-> "in-tune"]

findClosestNote(frequency, referenceFreq, useFlats) ==
    IF frequency <= 0 THEN
        \* log2 of a non-positive number is -Infinity or NaN: noteIndex is not finite
        UnknownNote(frequency)
    ELSE
        LET roundedSemitone == RoundLog2(12, frequency, referenceFreq)
            midiNote == 69 + roundedSemitone
            octave == (midiNote - 12) \div 12
            noteIndex == positiveMod(midiNote - 12, 12)
            noteName == IF useFlats THEN NOTES_FLAT[noteIndex + 1]
                                    ELSE NOTES_SHARP[noteIndex + 1]
            exactFrequency == exactFrequencyOf(referenceFreq, roundedSemitone)
            cents == CentsAgainst(frequency, exactFrequency)
        IN  IF noteIndex < 0 \/ noteIndex >= 12 THEN UnknownNote(frequency)
            ELSE [note |-> noteName \o ToString(octave), noteName |-> noteName,
                  octave |-> octave, frequency |-> frequency,
                  exactFrequency |-> exactFrequency,
                  cents |-> cents, tuningStatus |-> TuningStatusOf(cents)]

\* ---------------------------------------------------------------------------
\* src/utils/audio-processing.ts (median-filter revision)

FREQUENCY_BUFFER_SIZE == 5

\* no smoothing: the oldest reading of the buffer
getMedianFrequencyOldest(frequencies) ==
    IF Len(frequencies) = 0 THEN 0 ELSE frequencies[1]

getMedianFrequency(frequencies) ==
    IF Len(frequencies) = 0 THEN 0
    ELSE IF Len(frequencies) = 1 THEN frequencies[1]
    ELSE LET sorted == SortSeq(frequencies, LAMBDA a, b: a < b)
             mid == Len(sorted) \div 2
         IN  IF Len(sorted) % 2 = 0
             THEN (sorted[mid] + sorted[mid + 1]) \div 2
             ELSE sorted[mid + 1]

\* Math.abs(newFreq - median) <= median * (tolerancePercent / 100)
isFrequencyConsistent(newFreq, recentFrequencies, tolerancePercent) ==
    IF Len(recentFrequencies) < 2 THEN TRUE
    ELSE LET median == getMedianFrequency(recentFrequencies)
         IN  100 * Abs(newFreq - median) <= median * tolerancePercent

\* no octave correction at all
correctOctaveErrorNever(newFreq, recentFrequencies) == newFreq

\* Math.abs(newFreq / median - 2) < 0.1, Math.abs(newFreq / median - 0.5) < 0.05
correctOctaveError(newFreq, recentFrequencies) ==
    IF Len(recentFrequencies) < 3 THEN newFreq
    ELSE LET median == getMedianFrequency(recentFrequencies)
         IN  IF 10 * Abs(newFreq - 2 * median) < median THEN newFreq \div 2
             ELSE IF 10 * Abs(2 * newFreq - median) < median THEN newFreq * 2
             ELSE newFreq

\* ---------------------------------------------------------------------------
\* src/utils/note-detector.ts (hysteresis revision): class NoteDetector

bufferSize == FREQUENCY_BUFFER_SIZE

noteHoldThreshold == 2

\* Math.round(smoothedFrequency * 10) / 10, in tenths of a hertz
RoundTenth(f) == (5 * f + 1) \div 2

\* a confidence that counts the candidate pushed and the one shifted out
ConfidenceBeforeShift(buffer, isConsistent) ==
    [num |-> (Len(buffer) + 1) * (IF isConsistent THEN 2 ELSE 1), den |-> 2 * bufferSize]

\* bufferFillRatio * consistencyScore, as a fraction
Confidence(buffer, isConsistent) ==
    [num |-> Len(buffer) * (IF isConsistent THEN 2 ELSE 1), den |-> 2 * bufferSize]

\* a push that drops a candidate further than 5% from the buffer median
PushConsistentOnly(buffer, f) ==
    IF Len(buffer) >= 2
       /\ 100 * Abs(f - getMedianFrequency(buffer)) > 5 * getMedianFrequency(buffer)
    THEN buffer
    ELSE IF Len(buffer) >= bufferSize THEN Append(Tail(buffer), f)
    ELSE Append(buffer, f)

\* a push that makes room by dropping the newest entry
PushEvictingNewest(buffer, f) ==
    IF Len(buffer) >= bufferSize
    THEN Append(SubSeq(buffer, 1, Len(buffer) - 1), f)
    ELSE Append(buffer, f)

\* the buffer after push and shift
PushBounded(buffer, f) ==
    LET pushed == Append(buffer, f)
    IN  IF Len(pushed) > bufferSize THEN Tail(pushed) ELSE pushed

\* a held result that keeps the cents stored with the locked note
HeldResultStaleCents(locked, smoothedFrequency, confidence) ==
    [note |-> locked.note, noteName |-> locked.noteName, octave |-> locked.octave,
     exactFrequency |-> locked.exactFrequency,
     frequency |-> smoothedFrequency, cents |-> locked.cents,
     tuningStatus |-> locked.tuningStatus,
     smoothedFrequency |-> RoundTenth(smoothedFrequency),
     confidence |-> confidence, isLocked |-> TRUE]

\* the result returned while a differing note is held off (the locked note's info
\* with cents recomputed against the locked note's exact frequency)
HeldResult(locked, smoothedFrequency, confidence) ==
    LET cents == CentsAgainst(smoothedFrequency, locked.exactFrequency)
    IN  [note |-> locked.note, noteName |-> locked.noteName, octave |-> locked.octave,
         exactFrequency |-> locked.exactFrequency,
         frequency |-> smoothedFrequency, cents |-> cents,
         tuningStatus |-> TuningStatusOf(cents),
         smoothedFrequency |-> RoundTenth(smoothedFrequency),
         confidence |-> confidence, isLocked |-> TRUE]

\* a confirmed result whose cents are measured from the default reference pitch
ConfirmedResultCentsFromA4(noteInfo, smoothedFrequency, confidence) ==
    LET cents == CentsAgainst(smoothedFrequency, [ref |-> DEFAULT_A4_FREQ, semi |-> 0])
    IN  [note |-> noteInfo.note, noteName |-> noteInfo.noteName,
         octave |-> noteInfo.octave, exactFrequency |-> noteInfo.exactFrequency,
         frequency |-> noteInfo.frequency, cents |-> cents,
         tuningStatus |-> TuningStatusOf(cents),
         smoothedFrequency |-> RoundTenth(smoothedFrequency),
         confidence |-> confidence, isLocked |-> TRUE]

\* a confirmed result that is not marked as locked
ConfirmedResultProvisional(noteInfo, smoothedFrequency, confidence) ==
    [note |-> noteInfo.note, noteName |-> noteInfo.noteName, octave |-> noteInfo.octave,
     exactFrequency |-> noteInfo.exactFrequency,
     frequency |-> noteInfo.frequency, cents |-> noteInfo.cents,
     tuningStatus |-> noteInfo.tuningStatus,
     smoothedFrequency |-> RoundTenth(smoothedFrequency),
     confidence |-> confidence, isLocked |-> FALSE]

\* the result returned for a confirmed note
ConfirmedResult(noteInfo, smoothedFrequency, confidence) ==
    [note |-> noteInfo.note, noteName |-> noteInfo.noteName, octave |-> noteInfo.octave,
     exactFrequency |-> noteInfo.exactFrequency,
     frequency |-> noteInfo.frequency, cents |-> noteInfo.cents,
     tuningStatus |-> noteInfo.tuningStatus,
     smoothedFrequency |-> RoundTenth(smoothedFrequency),
     confidence |-> confidence, isLocked |-> TRUE]

\* a hold check that lets the first differing reading through
HoldReachedAtOnce(counter) == counter >= 1

HoldReached(counter) == counter >= noteHoldThreshold

\* a guard that lets every frequency through
NoCandidateNever(frequency) == FALSE

\* if (frequency <= 0) return null
NoCandidate(frequency) == frequency <= 0

\* detectNote on a detector d = [frequencyBuffer, lastValidNoteInfo, noteHoldCounter]:
\* the detector after the call, the value returned and the note the smoothed
\* frequency mapped to
detectNote(d, frequency, referenceFreq, useFlats) ==
    IF NoCandidate(frequency) THEN [d |-> d, ret |-> None, mapped |-> None]
    ELSE
    LET correctedFrequency == correctOctaveError(frequency, d.frequencyBuffer)
        isConsistent == isFrequencyConsistent(correctedFrequency, d.frequencyBuffer, 5)
        buffer == PushBounded(d.frequencyBuffer, correctedFrequency)
        smoothedFrequency == getMedianFrequency(buffer)
        noteInfo == findClosestNote(smoothedFrequency, referenceFreq, useFlats)
        confidence == Confidence(buffer, isConsistent)
        currentNote == noteInfo.note
        counted == d.noteHoldCounter + 1
    IN  IF d.lastValidNoteInfo = None THEN
            IF HoldReached(counted) THEN
                [d |-> [frequencyBuffer |-> buffer,
                        lastValidNoteInfo |-> Some(noteInfo),
                        noteHoldCounter |-> 0],
                 ret |-> Some(ConfirmedResult(noteInfo, smoothedFrequency, confidence)),
                 mapped |-> Some(currentNote)]
            ELSE
                [d |-> [frequencyBuffer |-> buffer,
                        lastValidNoteInfo |-> None,
                        noteHoldCounter |-> counted],
                 ret |-> None,
                 mapped |-> Some(currentNote)]
        ELSE IF Get(d.lastValidNoteInfo).note # currentNote THEN
            IF HoldReached(counted) THEN
                [d |-> [frequencyBuffer |-> buffer,
                        lastValidNoteInfo |-> Some(noteInfo),
                        noteHoldCounter |-> 0],
                 ret |-> Some(ConfirmedResult(noteInfo, smoothedFrequency, confidence)),
                 mapped |-> Some(currentNote)]
            ELSE
                [d |-> [frequencyBuffer |-> buffer,
                        lastValidNoteInfo |-> d.lastValidNoteInfo,
                        noteHoldCounter |-> counted],
                 ret |-> Some(HeldResult(Get(d.lastValidNoteInfo), smoothedFrequency,
                                         confidence)),
                 mapped |-> Some(currentNote)]
        ELSE
            [d |-> [frequencyBuffer |-> buffer,
                    lastValidNoteInfo |-> Some(noteInfo),
                    noteHoldCounter |-> 0],
             ret |-> Some(ConfirmedResult(noteInfo, smoothedFrequency, confidence)),
             mapped |-> Some(currentNote)]

\* reset(): the detector's fields after the call
resetDetector ==
    [frequencyBuffer |-> <<>>, lastValidNoteInfo |-> None, noteHoldCounter |-> 0]

Detector == [frequencyBuffer |-> frequencyBuffer,
             lastValidNoteInfo |-> lastValidNoteInfo,
             noteHoldCounter |-> noteHoldCounter]

NoteOf(r) == IF r = None THEN None ELSE Some(Get(r).note)

\* the last two qualifying calls, newest last
Remember(h, mapped, returned) ==
    LET e == [mapped |-> Get(mapped), returned |-> NoteOf(returned)]
    IN  IF Len(h) >= 2 THEN <<h[Len(h)], e>> ELSE Append(h, e)

\* ---------------------------------------------------------------------------
\* The detector driven directly by a caller

FreqInputs == {-Hz(1), 0, Hz(440), Hz(466), Hz(494), Hz(880)}
RefInputs == {Hz(440)}

\* new NoteDetector()
NewDetector ==
    /\ frequencyBuffer = <<>>
    /\ lastValidNoteInfo = None
    /\ noteHoldCounter = 0
    /\ call = [op |-> "new"]
    /\ ret = None
    /\ history = <<>>

NewSecondDetector ==
    /\ frequencyBuffer2 = <<>>
    /\ lastValidNoteInfo2 = None
    /\ noteHoldCounter2 = 0
    /\ ret2 = None

\* useTuner's state after the first render and its effects
\* (src/hooks/use-tuner.ts:46-76, 215-225)
NewHook ==
    /\ state = [currentFrequency |-> None, displayFrequency |-> None,
                currentNote |-> None, currentNoteWithoutOctave |-> None,
                currentOctave |-> None, tuningStatus |-> None, cents |-> 0,
                signalDetected |-> FALSE, error |-> None, isNoteLocked |-> FALSE,
                useFlats |-> FALSE, referenceFreq |-> DEFAULT_A4_FREQ]
    /\ refs = [audioAnalyzerRef |-> FALSE, noteDetectorRef |-> FALSE,
               analysisIntervalRef |-> FALSE, signalHoldTimerRef |-> None,
               signalDetectedRef |-> FALSE]
    /\ analyzer = [audioContext |-> FALSE, stream |-> FALSE, isInitialized |-> FALSE]
    /\ lifecycle = "mounted"
    /\ mounted = TRUE
    /\ lastOp = [op |-> "mount"]
    /\ silentRun = 0
    /\ noCandidateRun = 0
    /\ pending = <<>>

InitDetector == NewDetector /\ NewSecondDetector /\ NewHook

DetectNote(frequency, referenceFreq, useFlats) ==
    \E r \in {detectNote(Detector, frequency, referenceFreq, useFlats)} :
        /\ frequencyBuffer' = r.d.frequencyBuffer
        /\ lastValidNoteInfo' = r.d.lastValidNoteInfo
        /\ noteHoldCounter' = r.d.noteHoldCounter
        /\ ret' = r.ret
        /\ call' = [op |-> "detectNote", frequency |-> frequency,
                    referenceFreq |-> referenceFreq, useFlats |-> useFlats]
        /\ history' = IF frequency > 0 THEN Remember(history, r.mapped, r.ret)
                      ELSE history

\* a reset that leaves the hold counter as it is
ResetKeepingCounter ==
    /\ frequencyBuffer' = <<>>
    /\ lastValidNoteInfo' = None
    /\ noteHoldCounter' = noteHoldCounter
    /\ ret' = None
    /\ call' = [op |-> "reset"]
    /\ history' = <<>>

Reset ==
    /\ frequencyBuffer' = resetDetector.frequencyBuffer
    /\ lastValidNoteInfo' = resetDetector.lastValidNoteInfo
    /\ noteHoldCounter' = resetDetector.noteHoldCounter
    /\ ret' = None
    /\ call' = [op |-> "reset"]
    /\ history' = <<>>

NextDetector ==
    /\ \/ \E f \in FreqInputs, r \in RefInputs, u \in BOOLEAN : DetectNote(f, r, u)
       \/ Reset
    /\ UNCHANGED <<secondVars, hookVars>>

SpecDetector == InitDetector /\ [][NextDetector]_vars

\* ---------------------------------------------------------------------------
\* Two detectors fed the same frequencies and reference pitch, each with its own
\* useFlats on every call

Detector2 == [frequencyBuffer |-> frequencyBuffer2,
              lastValidNoteInfo |-> lastValidNoteInfo2,
              noteHoldCounter |-> noteHoldCounter2]

SpellingFreqInputs == {Hz(440), Hz(466), Hz(494)}

DetectNoteBoth(frequency, referenceFreq, useFlats, useFlats2) ==
    /\ DetectNote(frequency, referenceFreq, useFlats)
    /\ \E r \in {detectNote(Detector2, frequency, referenceFreq, useFlats2)} :
        /\ frequencyBuffer2' = r.d.frequencyBuffer
        /\ lastValidNoteInfo2' = r.d.lastValidNoteInfo
        /\ noteHoldCounter2' = r.d.noteHoldCounter
        /\ ret2' = r.ret

ResetBoth ==
    /\ Reset
    /\ frequencyBuffer2' = resetDetector.frequencyBuffer
    /\ lastValidNoteInfo2' = resetDetector.lastValidNoteInfo
    /\ noteHoldCounter2' = resetDetector.noteHoldCounter
    /\ ret2' = None

NextSpelling ==
    /\ \/ \E f \in SpellingFreqInputs, r \in RefInputs, u \in BOOLEAN, u2 \in BOOLEAN :
              DetectNoteBoth(f, r, u, u2)
       \/ ResetBoth
    /\ UNCHANGED hookVars

SpecSpelling == InitDetector /\ [][NextSpelling]_vars

\* ---------------------------------------------------------------------------
\* A detector that was used and reset, next to a newly constructed one: the
\* first detector is called alone, reset() is called on it while the second is
\* constructed, and from then on both are given the same calls

\* new NoteDetector(): the fields' initialisers
newNoteDetector ==
    [frequencyBuffer |-> <<>>, lastValidNoteInfo |-> None, noteHoldCounter |-> 0]

\* the second detector has been called with a candidate since it was constructed
Compared == frequencyBuffer2 # <<>>

DetectNoteFirst(frequency, referenceFreq, useFlats) ==
    /\ ~Compared
    /\ DetectNote(frequency, referenceFreq, useFlats)
    /\ UNCHANGED secondVars

ResetFirst ==
    /\ Reset
    /\ frequencyBuffer2' = newNoteDetector.frequencyBuffer
    /\ lastValidNoteInfo2' = newNoteDetector.lastValidNoteInfo
    /\ noteHoldCounter2' = newNoteDetector.noteHoldCounter
    /\ ret2' = None

DetectNoteSame(frequency, referenceFreq, useFlats) ==
    /\ Compared \/ call.op = "reset"
    /\ DetectNoteBoth(frequency, referenceFreq, useFlats, useFlats)

NextReset ==
    /\ \/ \E f \in SpellingFreqInputs, r \in RefInputs, u \in BOOLEAN :
              DetectNoteFirst(f, r, u)
       \/ ResetFirst
       \/ \E f \in SpellingFreqInputs \cup {0}, r \in RefInputs, u \in BOOLEAN :
              DetectNoteSame(f, r, u)
    /\ UNCHANGED hookVars

SpecReset == InitDetector /\ [][NextReset]_vars


\* ---------------------------------------------------------------------------
\* A detector fed a stream of candidates that alternates between f and 2f

\* the lower frequencies f of the streams, in hertz
OctaveLowInputs ==
    {Hz(n) : n \in {220, 226, 233, 247, 262, 294, 330, 370, 415}}

\* the first candidate of a stream is f or 2f, every later one the other octave
\* of the candidate before it
NextCandidates ==
    IF call.op # "detectNote"
    THEN OctaveLowInputs \cup {2 * f : f \in OctaveLowInputs}
    ELSE IF call.frequency \in OctaveLowInputs THEN {2 * call.frequency}
    ELSE {call.frequency \div 2}

DetectNoteAlternating ==
    \E f \in NextCandidates, u \in {FALSE} : DetectNote(f, DEFAULT_A4_FREQ, u)

NextOctave ==
    /\ DetectNoteAlternating
    /\ UNCHANGED <<secondVars, hookVars>>

SpecOctave == InitDetector /\ [][NextOctave]_vars /\ WF_vars(NextOctave)


\* ---------------------------------------------------------------------------
\* A detector given candidates near the octaves of the buffer median: 930 Hz
\* lies 5.7% above the double of 440 Hz, 230 Hz lies 4.5% above its half

CorrectionInputs == {Hz(230), Hz(440), Hz(880), Hz(930)}

DetectNoteNearOctave ==
    \E f \in CorrectionInputs, u \in {FALSE} : DetectNote(f, DEFAULT_A4_FREQ, u)

NextCorrection ==
    /\ \/ DetectNoteNearOctave
       \/ Reset
    /\ UNCHANGED <<secondVars, hookVars>>

SpecCorrection == InitDetector /\ [][NextCorrection]_vars


\* ---------------------------------------------------------------------------
\* findClosestNote called directly

\* every quarter hertz up to 16 Hz (note numbers -60 to 12) and the octaves of
\* C and A up to the fifth
MapFreqInputs == (1..64) \cup {Hz(n) : n \in {33, 65, 131, 262, 523, 55, 110, 220, 440, 880}}

MapRefInputs == {Hz(420), Hz(440), Hz(460)}

FindClosestNote(frequency, referenceFreq, useFlats) ==
    /\ ret' = Some(findClosestNote(frequency, referenceFreq, useFlats))
    /\ call' = [op |-> "findClosestNote", frequency |-> frequency,
                referenceFreq |-> referenceFreq, useFlats |-> useFlats]
    /\ UNCHANGED <<detectorVars, history>>

NextMap ==
    /\ \E f \in MapFreqInputs, r \in MapRefInputs, u \in BOOLEAN :
          FindClosestNote(f, r, u)
    /\ UNCHANGED <<secondVars, hookVars>>

SpecMap == InitDetector /\ [][NextMap]_vars


\* ---------------------------------------------------------------------------
\* A detector given candidates just inside and just outside 5 cents around A4
\* (438.5 Hz, 438.75 Hz, 441.25 Hz and 441.5 Hz) and candidates of B4

TuningInputs == {Hz(440) - 6, Hz(440) - 5, Hz(440) + 5, Hz(440) + 6, Hz(494)}

DetectNoteNearInTune ==
    \E f \in TuningInputs, u \in {FALSE} : DetectNote(f, DEFAULT_A4_FREQ, u)

NextTuning ==
    /\ \/ DetectNoteNearInTune
       \/ Reset
    /\ UNCHANGED <<secondVars, hookVars>>

SpecTuning == InitDetector /\ [][NextTuning]_vars


\* ---------------------------------------------------------------------------
\* findClosestNote given the exact frequency of a note it returned

\* Math.log2(exact / r) for exact = exact.ref * 2^(exact.semi / 12)
Log2RatioOfExact(exact, r) ==
    LET d == LOG2[exact.ref] - LOG2[r] + ((exact.semi * 1048576 + 6) \div 12)
    IN  [int |-> d \div 1048576, frac |-> d % 1048576]

\* findClosestNote for a frequency given as exact.ref * 2^(exact.semi / 12)
findClosestNoteOfExact(exact, referenceFreq, useFlats) ==
    LET l == Log2RatioOfExact(exact, referenceFreq)
        roundedSemitone == 12 * l.int + ((12 * l.frac + 524288) \div 1048576)
        midiNote == 69 + roundedSemitone
        octave == (midiNote - 12) \div 12
        noteIndex == positiveMod(midiNote - 12, 12)
        noteName == IF useFlats THEN NOTES_FLAT[noteIndex + 1]
                                ELSE NOTES_SHARP[noteIndex + 1]
        exactFrequency == exactFrequencyOf(referenceFreq, roundedSemitone)
        cents == 1200 * l.int - 100 * roundedSemitone
                     + ((1200 * l.frac + 524288) \div 1048576)
    IN  IF noteIndex < 0 \/ noteIndex >= 12 THEN UnknownNote(exact)
        ELSE [note |-> noteName \o ToString(octave), noteName |-> noteName,
              octave |-> octave, frequency |-> exact,
              exactFrequency |-> exactFrequency,
              cents |-> cents, tuningStatus |-> TuningStatusOf(cents)]

\* 100 Hz to 210 Hz (G2 to G#3, every note name) and frequencies of the octaves
\* 0, 1, 5 and 6
RoundTripFreqInputs ==
    {Hz(n) : n \in 100..210} \cup {Hz(n) : n \in {9, 17, 28, 31, 1000, 1500, 2000}}

\* reference pitches from 420 Hz to 460 Hz, 442.5 Hz among them
RoundTripRefInputs == {Hz(420), Hz(432), Hz(440), Hz(442) + 2, Hz(460)}

\* a frequency is mapped and the exact frequency of the note found is mapped
\* again with the same reference pitch
RoundTrip(frequency, referenceFreq, useFlats) ==
    \E first \in {findClosestNote(frequency, referenceFreq, useFlats)} :
        /\ ret' = Some(findClosestNoteOfExact(first.exactFrequency, referenceFreq,
                                              useFlats))
        /\ call' = [op |-> "roundTrip", frequency |-> frequency,
                    referenceFreq |-> referenceFreq, useFlats |-> useFlats,
                    first |-> first]
        /\ UNCHANGED <<detectorVars, history>>

NextRoundTrip ==
    /\ \E f \in RoundTripFreqInputs, r \in RoundTripRefInputs, u \in BOOLEAN :
          RoundTrip(f, r, u)
    /\ UNCHANGED <<secondVars, hookVars>>

SpecRoundTrip == InitDetector /\ [][NextRoundTrip]_vars


\* ---------------------------------------------------------------------------
\* A detector given candidates at the edges of two neighbouring notes: 428 Hz and
\* 452 Hz are A4, 453 Hz and 466 Hz are A#4 (the notes meet at 452.9 Hz)

EdgeInputs == {Hz(428), Hz(452), Hz(453), Hz(466)}

DetectNoteNearEdge ==
    \E f \in EdgeInputs, u \in BOOLEAN : DetectNote(f, DEFAULT_A4_FREQ, u)

NextSteady ==
    /\ \/ DetectNoteNearEdge
       \/ Reset
    /\ UNCHANGED <<secondVars, hookVars>>

SpecSteady == InitDetector /\ [][NextSteady]_vars


\* ---------------------------------------------------------------------------
\* findClosestNote on any JavaScript number: a number is a record that says
\* whether it is finite and gives its value, or for a value that is not finite
\* 0 for NaN, 1 for Infinity and -1 for -Infinity

Num(n) == [fin |-> TRUE, v |-> n]
NaN == [fin |-> FALSE, v |-> 0]
PosInfinity == [fin |-> FALSE, v |-> 1]
NegInfinity == [fin |-> FALSE, v |-> -1]

\* String(x) of a number that is not finite
JsToString(x) ==
    IF x.v = 1 THEN "Infinity" ELSE IF x.v = -1 THEN "-Infinity" ELSE "NaN"

\* x + n
JsAdd(x, n) == IF x.fin THEN Num(x.v + n) ELSE x

\* Math.round(12 * Math.log2(frequency / referenceFreq)) for a finite positive
\* referenceFreq: log2 is NaN below zero and for NaN, -Infinity at zero and Infinity
\* at Infinity
roundedSemitoneOfNumber(frequency, referenceFreq) ==
    IF ~frequency.fin THEN (IF frequency.v = 1 THEN PosInfinity ELSE NaN)
    ELSE IF frequency.v < 0 THEN NaN
    ELSE IF frequency.v = 0 THEN NegInfinity
    ELSE Num(RoundLog2(12, frequency.v, referenceFreq))

\* positiveMod(midiNote - 12, 12): x % 12 is NaN when x is not finite
noteIndexOfNumber(midiNote) ==
    IF midiNote.fin THEN Num(positiveMod(midiNote.v - 12, 12)) ELSE NaN

\* the range test alone: every comparison with NaN is false
NoteIndexOutOfRange(noteIndex) ==
    noteIndex.fin /\ (noteIndex.v < 0 \/ noteIndex.v >= 12)

\* noteIndex < 0 || noteIndex >= 12 || !Number.isFinite(noteIndex)
NoteIndexUnusable(noteIndex) ==
    \/ noteIndex.fin /\ (noteIndex.v < 0 \/ noteIndex.v >= 12)
    \/ ~noteIndex.fin

findClosestNoteOfNumber(frequency, referenceFreq, useFlats) ==
    LET roundedSemitone == roundedSemitoneOfNumber(frequency, referenceFreq)
        midiNote == JsAdd(roundedSemitone, 69)
        noteIndex == noteIndexOfNumber(midiNote)
    IN  IF NoteIndexUnusable(noteIndex) THEN UnknownNote(frequency)
        ELSE IF ~noteIndex.fin THEN
            \* NOTES_SHARP[NaN] is undefined, the octave and the cents are not finite
            [note |-> "undefined" \o JsToString(midiNote), noteName |-> "undefined",
             octave |-> midiNote, frequency |-> frequency,
             exactFrequency |-> [ref |-> referenceFreq, semi |-> roundedSemitone],
             cents |-> NaN, tuningStatus |-> "in-tune"]
        ELSE [findClosestNote(frequency.v, referenceFreq, useFlats)
                  EXCEPT !.frequency = frequency]

\* NaN, both infinities, zero, negative frequencies, and frequencies of notes
DegenerateInputs ==
    {NaN, PosInfinity, NegInfinity, Num(0), Num(-1), Num(-Hz(440))}

NumberInputs ==
    DegenerateInputs \cup {Num(n) : n \in 1..8}
                     \cup {Num(Hz(n)) : n \in {28, 55, 110, 220, 262, 330, 440, 466,
                                               880, 1047, 2093}}

FindClosestNoteOfNumber(frequency, referenceFreq, useFlats) ==
    /\ ret' = Some(findClosestNoteOfNumber(frequency, referenceFreq, useFlats))
    /\ call' = [op |-> "findClosestNoteOfNumber", frequency |-> frequency,
                referenceFreq |-> referenceFreq, useFlats |-> useFlats]
    /\ UNCHANGED <<detectorVars, history>>

NextDegenerate ==
    /\ \E f \in NumberInputs, r \in MapRefInputs, u \in BOOLEAN :
          FindClosestNoteOfNumber(f, r, u)
    /\ UNCHANGED <<secondVars, hookVars>>

SpecDegenerate == InitDetector /\ [][NextDegenerate]_vars


\* ---------------------------------------------------------------------------
\* src/hooks/use-tuner.ts (median-filter revision): useTuner

SIGNAL_THRESHOLD == 10     \* 0.01, in thousandths

MIN_FREQUENCY == 110       \* 27.5 Hz, in quarter hertz

MAX_FREQUENCY == 16744     \* 4186 Hz, in quarter hertz

SIGNAL_HOLD_TIME == 400

ANALYSIS_INTERVAL == 50

\* the analysis periods that pass before a hold timer is due
HoldFrames == SIGNAL_HOLD_TIME \div ANALYSIS_INTERVAL

\* the hook with the objects its refs hold
Hook == [state |-> state, refs |-> refs, detector |-> Detector, analyzer |-> analyzer]

\* a reset that leaves the note on display
resetDisplayKeepingNote(h) ==
    [h EXCEPT !.state = [h.state EXCEPT !.tuningStatus = None, !.cents = 0,
                                        !.signalDetected = FALSE,
                                        !.currentFrequency = None,
                                        !.displayFrequency = None,
                                        !.isNoteLocked = FALSE],
              !.refs = [h.refs EXCEPT !.signalDetectedRef = FALSE],
              !.detector = IF h.refs.noteDetectorRef THEN resetDetector
                           ELSE h.detector]

resetDisplay(h) ==
    [h EXCEPT !.state = [h.state EXCEPT !.currentNote = None,
                                        !.currentNoteWithoutOctave = None,
                                        !.currentOctave = None,
                                        !.tuningStatus = None,
                                        !.cents = 0,
                                        !.signalDetected = FALSE,
                                        !.currentFrequency = None,
                                        !.displayFrequency = None,
                                        !.isNoteLocked = FALSE],
              !.refs = [h.refs EXCEPT !.signalDetectedRef = FALSE],
              !.detector = IF h.refs.noteDetectorRef THEN resetDetector
                           ELSE h.detector]

\* a hold timer callback that forgets the reset
holdTimerCallbackWithoutReset(h) ==
    [h EXCEPT !.refs = [h.refs EXCEPT !.signalHoldTimerRef = None]]

\* the callback given to setTimeout for the hold timer
holdTimerCallback(h) ==
    LET r == resetDisplay(h)
    IN  [r EXCEPT !.refs = [r.refs EXCEPT !.signalHoldTimerRef = None]]

\* a silent frame that starts a hold timer whether or not one is pending
needsHoldTimerWhilePending(h) == h.refs.signalDetectedRef

\* a silent frame that never starts the hold timer
needsHoldTimerNever(h) == FALSE

\* the condition under which a silent frame starts the hold timer
needsHoldTimer(h) == h.refs.signalHoldTimerRef = None /\ h.refs.signalDetectedRef

\* getAudioData() returns a buffer
HasBuffer(h) == h.analyzer.isInitialized

\* analyzeAudio gets past its early returns
Analysed(h) == h.refs.audioAnalyzerRef /\ h.refs.noteDetectorRef /\ HasBuffer(h)

\* the frequency passes the range check
InRange(frequency) == frequency > MIN_FREQUENCY /\ frequency < MAX_FREQUENCY

\* the frame reaches the detector: it is analysed, has signal and a frequency in range
Candidate(h, rms, frequency) ==
    Analysed(h) /\ rms > SIGNAL_THRESHOLD /\ InRange(frequency)

\* the state setters called with a detection result
showNote(s, frequency, noteInfo) ==
    [s EXCEPT !.signalDetected = TRUE,
              !.currentFrequency = Some(frequency),
              !.displayFrequency = Some(noteInfo.smoothedFrequency),
              !.currentNote = Some(noteInfo.note),
              !.currentNoteWithoutOctave = Some(noteInfo.noteName),
              !.currentOctave = Some(noteInfo.octave),
              !.cents = noteInfo.cents,
              !.tuningStatus = Some(noteInfo.tuningStatus),
              !.isNoteLocked = noteInfo.isLocked]

\* analyzeAudio on a frame with the given RMS (in thousandths) and the frequency
\* detectPitch finds in it; detected is what noteDetectorRef.current.detectNote
\* makes of that frequency (the detector after the call and the value returned)
analyzeAudio(h, rms, frequency, detected) ==
    IF ~Analysed(h) THEN h
    ELSE IF rms > SIGNAL_THRESHOLD THEN
        LET cleared == [h.refs EXCEPT !.signalHoldTimerRef = None]
        IN  IF InRange(frequency) THEN
                IF detected.ret # None THEN
                    [h EXCEPT !.refs = [cleared EXCEPT !.signalDetectedRef = TRUE],
                              !.detector = detected.d,
                              !.state = showNote(h.state, frequency, Get(detected.ret))]
                ELSE [h EXCEPT !.refs = cleared, !.detector = detected.d]
            ELSE [h EXCEPT !.refs = cleared]
    ELSE IF needsHoldTimer(h) THEN
        [h EXCEPT !.refs = [h.refs EXCEPT !.signalHoldTimerRef = Some(HoldFrames)]]
    ELSE h

\* startTuner up to its await: the analyzer and the detector are created and
\* initialize() has made its AudioContext and asked for the microphone
startTuner(h) ==
    [h EXCEPT !.refs = [h.refs EXCEPT !.audioAnalyzerRef = TRUE,
                                      !.noteDetectorRef = TRUE],
              !.detector = IF h.refs.noteDetectorRef THEN h.detector
                           ELSE resetDetector,
              !.analyzer = IF h.refs.audioAnalyzerRef
                           THEN [h.analyzer EXCEPT !.audioContext = TRUE]
                           ELSE [audioContext |-> TRUE, stream |-> FALSE,
                                 isInitialized |-> FALSE]]

\* AudioAnalyzer.cleanup()
cleanup(a) == [audioContext |-> FALSE, stream |-> FALSE, isInitialized |-> FALSE]

stopTuner(h) ==
    LET stopped == [h EXCEPT !.refs = [h.refs EXCEPT !.analysisIntervalRef = FALSE,
                                                     !.signalHoldTimerRef = None,
                                                     !.audioAnalyzerRef = FALSE],
                             !.analyzer = IF h.refs.audioAnalyzerRef
                                          THEN cleanup(h.analyzer) ELSE h.analyzer]
    IN  resetDisplay(stopped)

\* one analysis period passes for a pending hold timer
Elapse(h) ==
    IF h.refs.signalHoldTimerRef = None THEN h
    ELSE [h EXCEPT !.refs = [h.refs EXCEPT !.signalHoldTimerRef =
              Some(IF Get(h.refs.signalHoldTimerRef) > 0
                   THEN Get(h.refs.signalHoldTimerRef) - 1 ELSE 0)]]

Commit(h) ==
    /\ state' = h.state
    /\ refs' = h.refs
    /\ analyzer' = h.analyzer
    /\ frequencyBuffer' = h.detector.frequencyBuffer
    /\ lastValidNoteInfo' = h.detector.lastValidNoteInfo
    /\ noteHoldCounter' = h.detector.noteHoldCounter

RmsInputs == {SIGNAL_THRESHOLD, SIGNAL_THRESHOLD + 1}
PitchInputs == {0, MIN_FREQUENCY, Hz(440), Hz(494), MAX_FREQUENCY}

CountUp(n) == IF n > HoldFrames THEN n ELSE n + 1

\* the init timer fires and startTuner runs up to its await
StartTuner ==
    /\ mounted
    /\ lifecycle = "mounted"
    /\ \E h \in {startTuner(Hook)} : Commit(h)
    /\ lifecycle' = "initializing"
    /\ lastOp' = [op |-> "startTuner"]
    /\ UNCHANGED <<mounted, silentRun, noCandidateRun>>

\* getUserMedia settles and initialize() and startTuner run to their ends
InitializeSettles(granted) ==
    /\ lifecycle = "initializing"
    /\ IF granted /\ analyzer.audioContext THEN
           /\ analyzer' = [audioContext |-> TRUE, stream |-> TRUE,
                           isInitialized |-> TRUE]
           /\ refs' = [refs EXCEPT !.analysisIntervalRef = TRUE]
           /\ state' = state
           /\ lifecycle' = "started"
       ELSE
           \* getUserMedia rejected, or cleanup() closed the context meanwhile and
           \* createAnalyser throws: the catch block reports the error
           /\ analyzer' = [analyzer EXCEPT !.stream = granted]
           /\ refs' = refs
           /\ state' = IF mounted THEN [state EXCEPT !.error = Some("Microphone")]
                       ELSE state
           /\ lifecycle' = "failed"
    /\ lastOp' = [op |-> "initialize", granted |-> granted]
    /\ UNCHANGED <<detectorVars, mounted, silentRun, noCandidateRun>>

\* the analysis interval fires
AnalyzeAudio(rms, frequency) ==
    /\ refs.analysisIntervalRef
    /\ \E h \in {Elapse(Hook)} :
          \E detected \in {IF Candidate(h, rms, frequency)
                           THEN detectNote(h.detector, frequency,
                                           h.state.referenceFreq, h.state.useFlats)
                           ELSE [d |-> h.detector, ret |-> None]} :
             \E after \in {analyzeAudio(h, rms, frequency, detected)} : Commit(after)
    /\ \E analysed \in {Analysed(Hook)}, candidate \in {Candidate(Hook, rms, frequency)} :
          /\ lastOp' = [op |-> "analyzeAudio", analysed |-> analysed, rms |-> rms,
                        candidate |-> IF candidate THEN Some(frequency) ELSE None]
          /\ silentRun' = IF analysed /\ rms <= SIGNAL_THRESHOLD
                          THEN CountUp(silentRun) ELSE 0
          /\ noCandidateRun' = IF analysed /\ ~candidate
                               THEN CountUp(noCandidateRun) ELSE 0
    /\ UNCHANGED <<lifecycle, mounted>>

\* the hold timer fires
HoldTimerFires ==
    /\ refs.signalHoldTimerRef = Some(0)
    /\ \E h \in {holdTimerCallback(Hook)} : Commit(h)
    /\ lastOp' = [op |-> "holdTimer", cleared |-> state.currentNote]
    /\ UNCHANGED <<lifecycle, mounted, silentRun, noCandidateRun>>

\* the component unmounts: the effect's cleanup clears the init timer and stops
\* the tuner
Unmount ==
    /\ mounted
    /\ \E h \in {stopTuner(Hook)} : Commit(h)
    /\ mounted' = FALSE
    /\ lifecycle' = IF lifecycle = "initializing" THEN lifecycle ELSE "stopped"
    /\ lastOp' = [op |-> "unmount"]
    /\ UNCHANGED <<silentRun, noCandidateRun>>

\* toggleNotation; the effect copies the new value into useFlatsRef
ToggleNotation ==
    /\ mounted
    /\ state' = [state EXCEPT !.useFlats = ~state.useFlats]
    /\ lastOp' = [op |-> "toggleNotation"]
    /\ UNCHANGED <<refs, analyzer, detectorVars, lifecycle, mounted, silentRun,
                   noCandidateRun>>

NextTuner ==
    /\ \/ StartTuner
       \/ \E granted \in BOOLEAN : InitializeSettles(granted)
       \/ \E rms \in RmsInputs, frequency \in PitchInputs : AnalyzeAudio(rms, frequency)
       \/ HoldTimerFires
       \/ Unmount
       \/ ToggleNotation
    /\ UNCHANGED <<traceVars, secondVars, pending>>

SpecTuner == InitDetector /\ [][NextTuner]_vars


\* ---------------------------------------------------------------------------
\* src/utils/note-detector.ts (weighted-smoothing revision) and
\* src/utils/frequency-classifier.ts, as the adaptive-threshold useTuner uses them

VERY_LOW_FREQUENCY_THRESHOLD == 400    \* 100 Hz, in quarter hertz

LOW_FREQUENCY_THRESHOLD == 800         \* 200 Hz, in quarter hertz

classifyFrequency(frequency) ==
    IF frequency < VERY_LOW_FREQUENCY_THRESHOLD THEN "very-low"
    ELSE IF frequency < LOW_FREQUENCY_THRESHOLD THEN "low"
    ELSE "normal"

\* constructor(bufferSize = 16)
weightedBufferSize == 16

\* detectNote of the weighted-smoothing NoteDetector for a frequency below
\* LOW_FREQUENCY_THRESHOLD, where the raw frequency is used unsmoothed: the
\* buffer after the call and the value returned
detectNoteWeighted(buffer, frequency, referenceFreq, useFlats) ==
    IF frequency <= 0 THEN [buffer |-> buffer, ret |-> None]
    ELSE
    LET pushed == Append(buffer, frequency)
        noteInfo == findClosestNote(frequency, referenceFreq, useFlats)
    IN  [buffer |-> IF Len(pushed) > weightedBufferSize THEN Tail(pushed) ELSE pushed,
         ret |-> Some([note |-> noteInfo.note, noteName |-> noteInfo.noteName,
                       octave |-> noteInfo.octave, frequency |-> noteInfo.frequency,
                       cents |-> noteInfo.cents,
                       tuningStatus |-> noteInfo.tuningStatus,
                       smoothedFrequency |-> RoundTenth(frequency),
                       frequencyRange |-> classifyFrequency(frequency)])]

\* ---------------------------------------------------------------------------
\* src/hooks/use-tuner.ts (adaptive-threshold revision): useTuner
\* RMS levels and thresholds are in units of 10^-7, frequencies handed to the
\* display in tenths of a hertz.

ADAPTIVE_SIGNAL_THRESHOLD == 40000     \* SIGNAL_THRESHOLD = 0.004

SUSTAIN_SIGNAL_THRESHOLD == 12000      \* 0.0012

INITIAL_DETECTION_COUNT == 5

INITIAL_DISPLAY_THRESHOLD == 3

FREQUENCY_DISPLAY_UPDATE_RATE == 5

DISPLAY_RATE_LOCKED == 3

NOTE_CONFIDENCE_THRESHOLD == 65        \* 0.65, in hundredths

STABLE_TUNING_THRESHOLD == 8

LOW_FREQUENCY_ADAPTATION_FACTOR == 15  \* 1.5, in tenths

NOTE_CHANGE_THRESHOLD == 3

NOTE_PROXIMITY_THRESHOLD == 2

NEARBY_NOTE_CHANGE_THRESHOLD == 4

LEGACY_MIN_FREQUENCY == Hz(20)

LEGACY_MAX_FREQUENCY == Hz(8000)

\* What the analysis loop reads for currentNote, currentFrequency, signalDetected
\* and isNoteLocked: the loop is started once, by the startTuner of the first
\* render (its dependency list holds startForceCheckTimer only and the effect
\* that calls it runs once), so analyze and updateAdaptiveThreshold are the
\* closures of the first render and see that render's state for good.
Captured ==
    [currentNote |-> None, currentFrequency |-> None, signalDetected |-> FALSE,
     isNoteLocked |-> FALSE]

RECURSIVE SumSeq(_)
SumSeq(s) == IF s = <<>> THEN 0 ELSE Head(s) + SumSeq(Tail(s))

Max(a, b) == IF a > b THEN a ELSE b

Min(a, b) == IF a < b THEN a ELSE b

\* the buffer after push, dropping the oldest entry beyond the limit
PushLimit(buffer, x, limit) ==
    IF Len(buffer) >= limit THEN Append(Tail(buffer), x) ELSE Append(buffer, x)

\* noteDetectionCounterRef with one more detection of the note
CountNote(counts, note) ==
    [n \in DOMAIN counts \cup {note} |->
        IF n = note THEN (IF n \in DOMAIN counts THEN counts[n] ELSE 0) + 1
        ELSE counts[n]]

\* noteDetectionCounterRef with the counters of all other notes set to 0
KeepOnly(counts, note) ==
    [n \in DOMAIN counts |-> IF n = note THEN counts[n] ELSE 0]

RECURSIVE SumCounts(_, _)
SumCounts(counts, notes) ==
    IF notes = {} THEN 0
    ELSE LET n == CHOOSE x \in notes : TRUE
         IN  counts[n] + SumCounts(counts, notes \ {n})

TotalDetections(counts) == SumCounts(counts, DOMAIN counts)

\* the count of the most frequent note, 0 when there is none
MostFrequent(counts) ==
    IF DOMAIN counts = {} THEN 0
    ELSE counts[CHOOSE n \in DOMAIN counts : \A m \in DOMAIN counts : counts[m] <= counts[n]]

\* calculateFrequencyStability, in thousandths: 1 - 20 * stdDev / mean clipped to
\* 0..1, where stdDev / mean = sqrt(n * sum of squares - sum^2) / sum. The two
\* ends of the scale are exact; in between the square root is rounded down.
calculateFrequencyStability(frequencies) ==
    IF Len(frequencies) < 2 THEN 0
    ELSE
    LET sum == SumSeq(frequencies)
        squares == SumSeq([i \in 1..Len(frequencies) |-> frequencies[i] * frequencies[i]])
        spread == Len(frequencies) * squares - sum * sum
    IN  IF spread = 0 THEN 1000
        ELSE IF spread >= (sum * sum + 399) \div 400 THEN 0
        ELSE 1000 - (20000 * (CHOOSE k \in 0..2000 :
                                 k * k <= spread /\ spread < (k + 1) * (k + 1))) \div sum

\* the position of the note's name in the note alphabets once its trailing
\* digits are cut off, 0 when it is in neither (the JavaScript -1)
BaseNotePosition(note) ==
    IF \E i \in 1..12, o \in 0..9 : NOTES_SHARP[i] \o ToString(o) = note
    THEN CHOOSE i \in 1..12 : \E o \in 0..9 : NOTES_SHARP[i] \o ToString(o) = note
    ELSE IF \E i \in 1..12, o \in 0..9 : NOTES_FLAT[i] \o ToString(o) = note
    THEN CHOOSE i \in 1..12 : \E o \in 0..9 : NOTES_FLAT[i] \o ToString(o) = note
    ELSE 0

isCloseNote(note1, note2) ==
    LET pos1 == BaseNotePosition(note1)
        pos2 == BaseNotePosition(note2)
    IN  IF pos1 = 0 \/ pos2 = 0 THEN FALSE
        ELSE Min(Abs(pos1 - pos2),
                 Min(Abs(pos1 - pos2 + 12) % 12, Abs(pos1 - pos2 - 12) % 12))
             <= NOTE_PROXIMITY_THRESHOLD

\* the weights of getSmoothCents, in tenths, newest value first
SmoothWeights(isStableTuning, isNearInTune, isLocked, isLowFreq) ==
    IF isStableTuning THEN
        IF isNearInTune THEN <<30, 20, 12, 8, 5>> ELSE <<20, 20, 18, 15, 12>>
    ELSE IF isLocked THEN
        IF isLowFreq THEN <<35, 20, 10, 3, 1>> ELSE <<25, 20, 15, 10, 5>>
    ELSE
        IF isLowFreq THEN <<30, 15, 5, 2, 1>> ELSE <<20, 15, 10, 8, 5>>

\* getSmoothCents once the buffer holds three values or more: outliers replaced
\* by the median, then the weighted mean, rounded as Math.round rounds the exact
\* quotient
SmoothedValue(buffer, newCents, isStableTuning, isLocked, isLowFreq) ==
    LET n == Len(buffer)
        isNearInTune == Abs(newCents) < 15
        weights == SmoothWeights(isStableTuning, isNearInTune, isLocked, isLowFreq)
        median == SortSeq(buffer, LAMBDA a, b: a < b)[(n \div 2) + 1]
        threshold == IF isNearInTune THEN 3 ELSE IF isLocked THEN 5 ELSE 8
        weightedSum == SumSeq([i \in 1..n |->
                          weights[i] * (IF Abs(buffer[n + 1 - i] - median) > threshold
                                        THEN median ELSE buffer[n + 1 - i])])
        weightSum == SumSeq([i \in 1..n |-> weights[i]])
    IN  IF isStableTuning /\ Abs(newCents) < 5
        THEN (2 * (7 * weightedSum + 3 * newCents * weightSum) + 10 * weightSum)
                 \div (20 * weightSum)
        ELSE (2 * weightedSum + weightSum) \div (2 * weightSum)

\* getSmoothCents on the refs r: the refs after the call and the value returned
getSmoothCents(r, newCents) ==
    LET buffer == PushLimit(r.centsBufferRef, newCents, 5)
    IN  [refs |-> [r EXCEPT !.centsBufferRef = buffer],
         value |-> IF Len(buffer) < 3 THEN newCents
                   ELSE SmoothedValue(buffer, newCents,
                            r.stableTuningCounterRef >= STABLE_TUNING_THRESHOLD,
                            r.currentLockedNoteRef # None,
                            r.frequencyRangeRef # "normal")]

\* a threshold that is reduced whether or not a note is locked
updateAdaptiveThresholdAsLocked(isNoteLocked, lastCents, frequencyRange) ==
    LET locked == (ADAPTIVE_SIGNAL_THRESHOLD * 7) \div 10
        fine == IF Abs(lastCents) < 15 THEN (locked * 6) \div 10 ELSE locked
    IN  IF frequencyRange = "very-low" THEN (fine * 65) \div 100
        ELSE IF frequencyRange = "low" THEN (fine * 75) \div 100
        ELSE fine

\* updateAdaptiveThreshold: the new currentThresholdRef
updateAdaptiveThreshold(isNoteLocked, lastCents, frequencyRange) ==
    IF ~isNoteLocked THEN ADAPTIVE_SIGNAL_THRESHOLD
    ELSE LET locked == (ADAPTIVE_SIGNAL_THRESHOLD * 7) \div 10
             fine == IF Abs(lastCents) < 15 THEN (locked * 6) \div 10 ELSE locked
         IN  IF frequencyRange = "very-low" THEN (fine * 65) \div 100
             ELSE IF frequencyRange = "low" THEN (fine * 75) \div 100
             ELSE fine

\* reset() of the weighted-smoothing NoteDetector
resetWeighted(d) == [d EXCEPT !.frequencyBuffer = <<>>]

resetDisplayToDefault(h) ==
    [h EXCEPT !.state = [h.state EXCEPT !.currentNote = None,
                                        !.currentNoteWithoutOctave = None,
                                        !.currentOctave = None,
                                        !.tuningStatus = None,
                                        !.cents = 0,
                                        !.signalDetected = FALSE,
                                        !.currentFrequency = None,
                                        !.displayFrequency = None,
                                        !.isNoteLocked = FALSE],
              !.refs = [h.refs EXCEPT !.centsBufferRef = <<>>,
                                      !.noteDetectionCounterRef = <<>>,
                                      !.currentLockedNoteRef = None,
                                      !.noteChangeCounterRef = 0,
                                      !.lastFrequencyRef = None,
                                      !.frequencyRangeRef = "normal",
                                      !.currentThresholdRef = ADAPTIVE_SIGNAL_THRESHOLD,
                                      !.frameCounterRef = 0,
                                      !.initialDetectionCounterRef = 0,
                                      !.displayUpdateCounterRef = 0,
                                      !.initialFrequencyBufferRef = <<>>,
                                      !.stableTuningCounterRef = 0,
                                      !.lockedNoteTimeRef = "long",
                                      !.noteHistoryRef = <<>>],
              !.detector = IF h.refs.noteDetectorRef THEN resetWeighted(h.detector)
                           ELSE h.detector]

\* analyze up to the signal test: the frame is counted, its RMS kept and the
\* adaptive threshold recomputed
frameStart(h, rms) ==
    [h EXCEPT !.refs = [h.refs EXCEPT
        !.animationFrameRef = TRUE,
        !.frameCounterRef = h.refs.frameCounterRef + 1,
        !.lastRmsRef = rms,
        !.currentThresholdRef = updateAdaptiveThreshold(Captured.isNoteLocked,
                                    h.refs.lastCentsRef, h.refs.frequencyRangeRef)]]

isSignalPresent(r, rms) ==
    \/ 10 * rms > 8 * r.currentThresholdRef
    \/ Captured.signalDetected /\ rms > SUSTAIN_SIGNAL_THRESHOLD

\* the branch for a frame with signal, up to pitch detection
onSignal(h) ==
    LET hasStableDetection ==
            Len(h.refs.initialFrequencyBufferRef) >= INITIAL_DISPLAY_THRESHOLD
        hasNoteToDisplay ==
            Captured.currentNote # None /\ h.refs.currentLockedNoteRef # None
    IN  [h EXCEPT !.refs = [h.refs EXCEPT !.lastSignalTimeRef = "recent",
                                          !.signalHoldTimerRef = None],
                  !.state = IF hasStableDetection \/ hasNoteToDisplay
                            THEN [h.state EXCEPT !.signalDetected = TRUE]
                            ELSE [h.state EXCEPT !.tuningStatus = None]]

\* the branches for a frame without signal
onNoSignal(h) ==
    IF Captured.signalDetected THEN
        IF h.refs.signalHoldTimerRef = None
        THEN [h EXCEPT !.refs = [h.refs EXCEPT !.signalHoldTimerRef = Some("hold")]]
        ELSE h
    ELSE IF Captured.currentNote # None \/ Captured.currentFrequency # None
    THEN resetDisplayToDefault(h)
    ELSE h

\* the bookkeeping for a detected note, up to the confidence test
trackNote(h, noteInfo) ==
    [h EXCEPT !.refs = [h.refs EXCEPT
        !.frequencyRangeRef = noteInfo.frequencyRange,
        !.initialFrequencyBufferRef =
            PushLimit(h.refs.initialFrequencyBufferRef, noteInfo.smoothedFrequency,
                      INITIAL_DETECTION_COUNT * 2),
        !.noteHistoryRef = PushLimit(h.refs.noteHistoryRef, noteInfo.note, 10),
        !.lastFrequencyRef = Some(noteInfo.smoothedFrequency),
        !.noteDetectionCounterRef =
            CountNote(h.refs.noteDetectionCounterRef, noteInfo.note),
        !.initialDetectionCounterRef =
            IF h.refs.currentLockedNoteRef = None
            THEN h.refs.initialDetectionCounterRef + 1
            ELSE h.refs.initialDetectionCounterRef]]

\* the confidence test applies: nothing is locked
Unlocked(r) == r.currentLockedNoteRef = None /\ ~Captured.isNoteLocked

\* the most frequent note's share of all detections reaches the confidence
\* threshold NOTE_CONFIDENCE_THRESHOLD * adjustment * (1 - 0.3 * stability)
Confident(r) ==
    LET total == TotalDetections(r.noteDetectionCounterRef)
        stability == calculateFrequencyStability(r.initialFrequencyBufferRef)
        adjustment ==
            IF r.frequencyRangeRef = "very-low" THEN LOW_FREQUENCY_ADAPTATION_FACTOR
            ELSE IF r.frequencyRangeRef = "low"
                 THEN (LOW_FREQUENCY_ADAPTATION_FACTOR * 8) \div 10
            ELSE 10
    IN  ~(MostFrequent(r.noteDetectionCounterRef) * 10000000
            < total * NOTE_CONFIDENCE_THRESHOLD * adjustment * (10000 - 3 * stability))

\* the early return of a frame without a predominant note
notConfident(h) ==
    IF Captured.currentNote = None
    THEN [h EXCEPT !.state = [h.state EXCEPT !.tuningStatus = None]]
    ELSE h

\* the stable-tuning counter of a confident frame while nothing is locked
tuneStability(h, noteInfo) ==
    [h EXCEPT !.refs = [h.refs EXCEPT !.stableTuningCounterRef =
        IF Abs(noteInfo.cents) < 15 THEN h.refs.stableTuningCounterRef + 1
        ELSE Max(0, h.refs.stableTuningCounterRef - 1)]]

\* the display update of a frame that reached it
updateDisplay(h, noteInfo) ==
    LET r == h.refs
        updateRate == IF Captured.isNoteLocked THEN DISPLAY_RATE_LOCKED
                      ELSE FREQUENCY_DISPLAY_UPDATE_RATE
        shouldUpdateDisplay ==
            IF r.currentLockedNoteRef = None
            THEN r.initialDetectionCounterRef >= INITIAL_DETECTION_COUNT
            ELSE r.displayUpdateCounterRef % updateRate = 0
        buffer == r.initialFrequencyBufferRef
        counted == [r EXCEPT !.displayUpdateCounterRef = r.displayUpdateCounterRef + 1]
    IN  IF ~(shouldUpdateDisplay \/ r.frameCounterRef % FREQUENCY_DISPLAY_UPDATE_RATE = 0)
        THEN h
        ELSE IF Len(buffer) >= INITIAL_DISPLAY_THRESHOLD THEN
            LET medianFreq == SortSeq(buffer, LAMBDA a, b: a < b)[(Len(buffer) \div 2) + 1]
                smooth == getSmoothCents(counted, noteInfo.cents)
                smoothedCents == smooth.value
            IN  [h EXCEPT
                    !.refs = [smooth.refs EXCEPT !.lastCentsRef = smoothedCents],
                    !.state = [h.state EXCEPT
                        !.cents = smoothedCents,
                        !.tuningStatus = Some(IF smoothedCents < -10 THEN "flat"
                                              ELSE IF smoothedCents > 10 THEN "sharp"
                                              ELSE "in-tune"),
                        !.currentFrequency = Some(noteInfo.frequency),
                        !.displayFrequency = Some(medianFreq),
                        !.currentNote = Some(noteInfo.note),
                        !.currentNoteWithoutOctave = Some(noteInfo.noteName),
                        !.currentOctave = Some(noteInfo.octave),
                        !.signalDetected = TRUE]]
        ELSE [h EXCEPT !.refs = counted,
                       !.state = [h.state EXCEPT !.tuningStatus = None,
                                                 !.currentNote = None,
                                                 !.currentNoteWithoutOctave = None,
                                                 !.currentOctave = None]]

\* Math.max(2, Math.round(adaptiveBase * (1 - consistencyFactor * 0.4))), where
\* adaptiveBase = twiceBase / 2 and consistencyFactor = count / total
adaptiveThreshold(twiceBase, count, total) ==
    Max(2, (twiceBase * (5 * total - 2 * count) + 5 * total) \div (10 * total))

\* the end of a frame: lock the first note, keep the locked note, or count
\* towards a switch and schedule it
lockOrSwitch(h, noteInfo) ==
    LET r == h.refs
        detectedNote == noteInfo.note
    IN  IF r.currentLockedNoteRef = None THEN
            IF 2 * r.initialDetectionCounterRef >= INITIAL_DETECTION_COUNT
            THEN [h EXCEPT
                    !.refs = [r EXCEPT
                        !.currentLockedNoteRef = Some(detectedNote),
                        !.noteChangeCounterRef = 0,
                        !.lockedNoteTimeRef = "recent",
                        !.noteDetectionCounterRef =
                            KeepOnly(r.noteDetectionCounterRef, detectedNote)],
                    !.state = [h.state EXCEPT !.isNoteLocked = TRUE]]
            ELSE h
        ELSE IF r.currentLockedNoteRef = Some(detectedNote) THEN
            [h EXCEPT
                !.refs = [r EXCEPT
                    !.noteChangeCounterRef = 0,
                    !.stableTuningCounterRef =
                        IF Abs(r.lastCentsRef) < 15
                        THEN Min(STABLE_TUNING_THRESHOLD + 5, r.stableTuningCounterRef + 1)
                        ELSE r.stableTuningCounterRef],
                !.state = [h.state EXCEPT !.isNoteLocked = TRUE]]
        ELSE
            LET changes == r.noteChangeCounterRef + 1
                counted == [r EXCEPT !.noteChangeCounterRef = changes]
                isNearbyNote == isCloseNote(Get(r.currentLockedNoteRef), detectedNote)
                sum == TotalDetections(r.noteDetectionCounterRef)
                totalDetections == IF sum = 0 THEN 1 ELSE sum
                baseThreshold == IF isNearbyNote THEN NEARBY_NOTE_CHANGE_THRESHOLD
                                 ELSE NOTE_CHANGE_THRESHOLD
                twiceBonus ==
                    (IF 2 * r.stableTuningCounterRef > STABLE_TUNING_THRESHOLD
                     THEN 3 ELSE 0)
                    + (IF r.lockedNoteTimeRef = "long" THEN 2 ELSE 0)
                threshold == adaptiveThreshold(2 * baseThreshold + twiceBonus,
                                 r.noteDetectionCounterRef[detectedNote],
                                 totalDetections)
                first == getSmoothCents(counted, noteInfo.cents)
                second == getSmoothCents(first.refs, noteInfo.cents)
            IN  IF changes >= threshold THEN
                    [h EXCEPT
                        !.refs = IF first.value < -10 THEN first.refs ELSE second.refs,
                        !.state = [h.state EXCEPT !.tuningStatus =
                            Some(IF first.value < -10 THEN "flat"
                                 ELSE IF second.value > 10 THEN "sharp"
                                 ELSE "in-tune")],
                        !.pending = Append(h.pending,
                            [note |-> detectedNote, cents |-> noteInfo.cents])]
                ELSE [h EXCEPT !.refs = counted]

\* the callback of the oldest pending 50 ms timeout
switchTimeout(h) ==
    LET entry == Head(h.pending)
        switched == [h.refs EXCEPT
            !.currentLockedNoteRef = Some(entry.note),
            !.noteChangeCounterRef = 0,
            !.lockedNoteTimeRef = "recent",
            !.stableTuningCounterRef = 0,
            !.noteDetectionCounterRef = KeepOnly(h.refs.noteDetectionCounterRef, entry.note),
            !.initialFrequencyBufferRef = <<>>]
        smooth == getSmoothCents(switched, entry.cents)
    IN  [h EXCEPT !.refs = [smooth.refs EXCEPT !.centsBufferRef = <<smooth.value>>],
                  !.pending = Tail(h.pending)]

\* the callback of the force-check interval
forceCheck(h) ==
    IF 10 * h.refs.lastRmsRef < 3 * h.refs.currentThresholdRef
       /\ h.refs.lastSignalTimeRef = "long"
    THEN resetDisplayToDefault(h)
    ELSE h

\* startTuner up to its await
startTunerAdaptive(h) ==
    [h EXCEPT !.refs = [h.refs EXCEPT !.audioAnalyzerRef = TRUE,
                                      !.noteDetectorRef = TRUE],
              !.detector = IF h.refs.noteDetectorRef THEN h.detector
                           ELSE resetWeighted(h.detector),
              !.analyzer = IF h.refs.audioAnalyzerRef
                           THEN [h.analyzer EXCEPT !.audioContext = TRUE]
                           ELSE [audioContext |-> TRUE, stream |-> FALSE,
                                 isInitialized |-> FALSE]]

stopTunerAdaptive(h) ==
    resetDisplayToDefault(
        [h EXCEPT !.refs = [h.refs EXCEPT !.animationFrameRef = FALSE,
                                          !.forceCheckTimerRef = FALSE,
                                          !.audioAnalyzerRef = FALSE],
                  !.analyzer = IF h.refs.audioAnalyzerRef
                               THEN cleanup(h.analyzer) ELSE h.analyzer])

\* the effect that keeps the returned state consistent
consistencyEffect(s) ==
    IF s.currentNote # None THEN s
    ELSE [s EXCEPT !.tuningStatus = None,
                   !.displayFrequency = None,
                   !.currentFrequency = None]

MaxFrames == 9

\* pitches of the analysed frames: none, A2 and E3, both below
\* LOW_FREQUENCY_THRESHOLD
AdaptivePitchInputs == {0, Hz(110), Hz(165)}

\* RMS levels of the analysed frames: silence and a level above the threshold
AdaptiveRmsInputs == {0, 33000}

AdaptiveHook == [state |-> state, refs |-> refs, detector |-> Detector,
                 analyzer |-> analyzer, pending |-> pending]

CommitAdaptive(h) == Commit(h) /\ pending' = h.pending

\* the consistency effect has work to do after the last commit
EffectPending ==
    /\ mounted
    /\ state.currentNote = None
    /\ \/ state.tuningStatus # None
       \/ state.displayFrequency # None
       \/ state.currentFrequency # None

\* useTuner's state after the first render and its effects
NewAdaptiveHook ==
    /\ state = [currentFrequency |-> None, displayFrequency |-> None,
                currentNote |-> None, currentNoteWithoutOctave |-> None,
                currentOctave |-> None, tuningStatus |-> None, cents |-> 0,
                signalDetected |-> FALSE, error |-> None, isNoteLocked |-> FALSE,
                useFlats |-> FALSE, referenceFreq |-> DEFAULT_A4_FREQ]
    /\ refs = [audioAnalyzerRef |-> FALSE, noteDetectorRef |-> FALSE,
               animationFrameRef |-> FALSE, forceCheckTimerRef |-> FALSE,
               signalHoldTimerRef |-> None, lastSignalTimeRef |-> "recent",
               lastRmsRef |-> 0, frameCounterRef |-> 0,
               initialDetectionCounterRef |-> 0, displayUpdateCounterRef |-> 0,
               initialFrequencyBufferRef |-> <<>>, noteDetectionCounterRef |-> <<>>,
               currentLockedNoteRef |-> None, noteChangeCounterRef |-> 0,
               lastCentsRef |-> 0, centsBufferRef |-> <<>>, lastFrequencyRef |-> None,
               frequencyRangeRef |-> "normal",
               currentThresholdRef |-> ADAPTIVE_SIGNAL_THRESHOLD,
               stableTuningCounterRef |-> 0, lockedNoteTimeRef |-> "long",
               noteHistoryRef |-> <<>>]
    /\ analyzer = [audioContext |-> FALSE, stream |-> FALSE, isInitialized |-> FALSE]
    /\ lifecycle = "mounted"
    /\ mounted = TRUE
    /\ lastOp = [op |-> "mount"]
    /\ silentRun = 0
    /\ noCandidateRun = 0
    /\ pending = <<>>

InitAdaptive == NewDetector /\ NewSecondDetector /\ NewAdaptiveHook

\* the init timer fires and startTuner runs up to its await
StartTunerAdaptive ==
    /\ mounted
    /\ lifecycle = "mounted"
    /\ \E h \in {startTunerAdaptive(AdaptiveHook)} : CommitAdaptive(h)
    /\ lifecycle' = "initializing"
    /\ lastOp' = [op |-> "startTuner"]
    /\ UNCHANGED mounted

\* getUserMedia settles and initialize() and startTuner run to their ends: on
\* success the force-check interval and the 100 ms start timer are set
InitializeSettlesAdaptive(granted) ==
    /\ lifecycle = "initializing"
    /\ IF granted /\ analyzer.audioContext THEN
           /\ analyzer' = [audioContext |-> TRUE, stream |-> TRUE,
                           isInitialized |-> TRUE]
           /\ refs' = [refs EXCEPT !.forceCheckTimerRef = TRUE]
           /\ state' = state
           /\ lifecycle' = "starting"
       ELSE
           /\ analyzer' = [analyzer EXCEPT !.stream = granted]
           /\ refs' = refs
           /\ state' = IF mounted THEN [state EXCEPT !.error = Some("Microphone")]
                       ELSE state
           /\ lifecycle' = "failed"
    /\ lastOp' = [op |-> "initialize", granted |-> granted]
    /\ UNCHANGED <<detectorVars, mounted, pending>>

\* the start timer or a requested animation frame fires: analyzeAudio's guard
\* and one pass of analyze
AnalyzeFrame(rms, frequency) ==
    /\ lifecycle = "starting" \/ refs.animationFrameRef
    /\ refs.frameCounterRef < MaxFrames
    /\ ~EffectPending
    /\ IF ~(refs.audioAnalyzerRef /\ refs.noteDetectorRef)
       THEN UNCHANGED <<state, refs, analyzer, detectorVars, pending>>
       ELSE
       \E started \in {frameStart(AdaptiveHook, rms)} :
       \E present \in {isSignalPresent(started.refs, rms)} :
       \E heard \in {IF present THEN onSignal(started) ELSE onNoSignal(started)} :
       \E detected \in {IF present /\ frequency > LEGACY_MIN_FREQUENCY
                                   /\ frequency < LEGACY_MAX_FREQUENCY
                        THEN detectNoteWeighted(heard.detector.frequencyBuffer, frequency,
                                 heard.state.referenceFreq, heard.state.useFlats)
                        ELSE [buffer |-> heard.detector.frequencyBuffer, ret |-> None]} :
       \E tracked \in {IF detected.ret = None THEN heard
                       ELSE trackNote([heard EXCEPT !.detector.frequencyBuffer =
                                                        detected.buffer],
                                      Get(detected.ret))} :
       \E unlocked \in {Unlocked(tracked.refs)} :
       \E confident \in {detected.ret # None /\ unlocked /\ Confident(tracked.refs)} :
       \E tuned \in {IF confident THEN tuneStability(tracked, Get(detected.ret))
                     ELSE tracked} :
       \E shown \in {IF detected.ret = None \/ (unlocked /\ ~confident) THEN tuned
                     ELSE updateDisplay(tuned, Get(detected.ret))} :
       \E after \in {IF detected.ret = None THEN shown
                     ELSE IF unlocked /\ ~confident THEN notConfident(shown)
                     ELSE lockOrSwitch(shown, Get(detected.ret))} :
          CommitAdaptive(after)
    /\ lifecycle' = IF lifecycle # "starting" THEN lifecycle
                    ELSE IF refs.audioAnalyzerRef /\ refs.noteDetectorRef THEN "started"
                    ELSE "stopped"
    /\ lastOp' = [op |-> "analyze", rms |-> rms, frequency |-> frequency]
    /\ UNCHANGED mounted

\* the oldest pending 50 ms timeout fires
SwitchTimeoutFires ==
    /\ pending # <<>>
    /\ \E h \in {switchTimeout(AdaptiveHook)} : CommitAdaptive(h)
    /\ lastOp' = [op |-> "switchTimeout"]
    /\ UNCHANGED <<lifecycle, mounted>>

\* the force-check interval fires
ForceCheck ==
    /\ refs.forceCheckTimerRef
    /\ \E h \in {forceCheck(AdaptiveHook)} : CommitAdaptive(h)
    /\ lastOp' = [op |-> "forceCheck"]
    /\ UNCHANGED <<lifecycle, mounted>>

\* more than SIGNAL_HOLD_TIME passes since the last frame with signal; a 50 ms
\* timeout set in or before that frame has fired by then
HoldTimePasses ==
    /\ refs.lastSignalTimeRef = "recent"
    /\ pending = <<>>
    /\ refs' = [refs EXCEPT !.lastSignalTimeRef = "long"]
    /\ lastOp' = [op |-> "holdTimePasses"]
    /\ UNCHANGED <<state, analyzer, detectorVars, pending, lifecycle, mounted>>

\* more than 1.5 s pass since the note was locked
LockAges ==
    /\ refs.lockedNoteTimeRef = "recent"
    /\ refs' = [refs EXCEPT !.lockedNoteTimeRef = "long"]
    /\ lastOp' = [op |-> "lockAges"]
    /\ UNCHANGED <<state, analyzer, detectorVars, pending, lifecycle, mounted>>

\* the consistency effect runs after a commit that left a status or a frequency
\* without a note
ConsistencyEffect ==
    /\ EffectPending
    /\ state' = consistencyEffect(state)
    /\ lastOp' = [op |-> "consistencyEffect"]
    /\ UNCHANGED <<refs, analyzer, detectorVars, pending, lifecycle, mounted>>

\* the component unmounts: the effect's cleanup clears the init timer and stops
\* the tuner; the start timer and pending 50 ms timeouts stay
UnmountAdaptive ==
    /\ mounted
    /\ \E h \in {stopTunerAdaptive(AdaptiveHook)} : CommitAdaptive(h)
    /\ mounted' = FALSE
    /\ lifecycle' = IF lifecycle \in {"initializing", "starting"} THEN lifecycle
                    ELSE "stopped"
    /\ lastOp' = [op |-> "unmount"]

NextAdaptive ==
    /\ \/ StartTunerAdaptive
       \/ \E granted \in BOOLEAN : InitializeSettlesAdaptive(granted)
       \/ \E rms \in AdaptiveRmsInputs, frequency \in AdaptivePitchInputs :
             AnalyzeFrame(rms, frequency)
       \/ SwitchTimeoutFires
       \/ ForceCheck
       \/ HoldTimePasses
       \/ LockAges
       \/ ConsistencyEffect
       \/ UnmountAdaptive
    /\ UNCHANGED <<traceVars, secondVars, silentRun, noCandidateRun>>

SpecAdaptive == InitAdaptive /\ [][NextAdaptive]_vars


\* ---------------------------------------------------------------------------
\* The frequency histories of the two revisions of NoteDetector, given the same
\* candidates: the first detector is the hysteresis revision, the second
\* detector's frequencyBuffer2 is the buffer of the weighted-smoothing revision

FifoInputs == {Hz(110), Hz(165)}

DetectNoteInBoth(frequency) ==
    /\ DetectNote(frequency, DEFAULT_A4_FREQ, FALSE)
    /\ \E r \in {detectNoteWeighted(frequencyBuffer2, frequency, DEFAULT_A4_FREQ, FALSE)} :
          /\ frequencyBuffer2' = r.buffer
          /\ ret2' = r.ret
    /\ UNCHANGED <<lastValidNoteInfo2, noteHoldCounter2>>

NextFifo ==
    /\ \E f \in FifoInputs : DetectNoteInBoth(f)
    /\ UNCHANGED hookVars

SpecFifo == InitDetector /\ [][NextFifo]_vars


\* ---------------------------------------------------------------------------
\* The settings actions of useTuner, as TunerSettings calls them

\* Number.parseFloat(x.toFixed(1)) for x in quarter hertz: the nearest tenth of
\* a hertz, back in quarter hertz (exact for the multiples of half a hertz)
toFixed1(x) == (4 * ((10 * x + 2) \div 4)) \div 10

\* an adjustment without the limits
adjustReferenceFreqUnclamped(prev, increment) == toFixed1(prev + increment)

\* the updater of adjustReferenceFreq
adjustReferenceFreq(prev, increment) ==
    toFixed1(Min(Hz(460), Max(Hz(420), prev + increment)))

\* onAdjustReferenceFreq(-0.5) and onAdjustReferenceFreq(0.5), in quarter hertz
Increments == {-2, 2}

AdjustReferenceFreq(increment) ==
    /\ mounted
    /\ state' = [state EXCEPT
                    !.referenceFreq = adjustReferenceFreq(state.referenceFreq, increment)]
    /\ lastOp' = [op |-> "adjustReferenceFreq", increment |-> increment,
                  prev |-> state.referenceFreq]
    /\ UNCHANGED <<refs, analyzer, detectorVars, lifecycle, mounted, silentRun,
                   noCandidateRun, pending>>

ResetReferenceFreq ==
    /\ mounted
    /\ state' = [state EXCEPT !.referenceFreq = DEFAULT_A4_FREQ]
    /\ lastOp' = [op |-> "resetReferenceFreq"]
    /\ UNCHANGED <<refs, analyzer, detectorVars, lifecycle, mounted, silentRun,
                   noCandidateRun, pending>>

NextSettings ==
    /\ \/ \E increment \in Increments : AdjustReferenceFreq(increment)
       \/ ResetReferenceFreq
       \/ ToggleNotation /\ pending' = pending
    /\ UNCHANGED <<traceVars, secondVars>>

SpecSettings == InitDetector /\ [][NextSettings]_vars


\* ---------------------------------------------------------------------------
\* useTuner (median-filter revision) with the call analyzeAudio makes on the
\* detector and the value it returns kept in call and ret

AnalyzeAudioTraced(rms, frequency) ==
    /\ AnalyzeAudio(rms, frequency)
    /\ \E h \in {Elapse(Hook)} :
          \E detected \in {IF Candidate(h, rms, frequency)
                           THEN detectNote(h.detector, frequency,
                                           h.state.referenceFreq, h.state.useFlats)
                           ELSE [d |-> h.detector, ret |-> None]} :
             /\ ret' = detected.ret
             /\ call' = IF Candidate(h, rms, frequency)
                        THEN [op |-> "detectNote", frequency |-> frequency,
                              referenceFreq |-> h.state.referenceFreq,
                              useFlats |-> h.state.useFlats]
                        ELSE [op |-> "analyzeAudio"]
    /\ UNCHANGED history

NextLocked ==
    /\ \/ StartTuner /\ UNCHANGED traceVars
       \/ \E granted \in BOOLEAN : InitializeSettles(granted) /\ UNCHANGED traceVars
       \/ \E rms \in RmsInputs, frequency \in PitchInputs :
              AnalyzeAudioTraced(rms, frequency)
       \/ HoldTimerFires /\ UNCHANGED traceVars
       \/ Unmount /\ UNCHANGED traceVars
       \/ ToggleNotation /\ UNCHANGED traceVars
    /\ UNCHANGED <<secondVars, pending>>

SpecLocked == InitDetector /\ [][NextLocked]_vars


\* ---------------------------------------------------------------------------
\* isCloseNote called directly with two notes as findClosestNote names them

\* the octaves the notes are taken from
CloseOctaves == {2, 3}

\* the note indices of the first note (C, C#, A#, B) and of the second
CloseFirstIndices == {0, 1, 10, 11}
CloseSecondIndices == {0, 1, 2, 3, 9, 10, 11}

\* the name findClosestNote gives the note with the given index (0 = C) and octave
NoteNamed(index, octave, useFlats) ==
    (IF useFlats THEN NOTES_FLAT[index + 1] ELSE NOTES_SHARP[index + 1])
        \o ToString(octave)

IsCloseNote(index1, octave1, flats1, index2, octave2, flats2) ==
    /\ ret' = Some(isCloseNote(NoteNamed(index1, octave1, flats1),
                               NoteNamed(index2, octave2, flats2)))
    /\ call' = [op |-> "isCloseNote",
                note1 |-> NoteNamed(index1, octave1, flats1),
                note2 |-> NoteNamed(index2, octave2, flats2),
                semitones |-> Abs((12 * octave1 + index1) - (12 * octave2 + index2))]
    /\ UNCHANGED <<detectorVars, history>>

NextClose ==
    /\ \E index1 \in CloseFirstIndices, octave1 \in CloseOctaves, flats1 \in BOOLEAN,
          index2 \in CloseSecondIndices, octave2 \in CloseOctaves, flats2 \in {FALSE} :
          IsCloseNote(index1, octave1, flats1, index2, octave2, flats2)
    /\ UNCHANGED <<secondVars, hookVars>>

SpecClose == InitDetector /\ [][NextClose]_vars


\* ---------------------------------------------------------------------------
\* useTuner (median-filter revision) with the browser's table of timers: pending
\* holds the hold timeouts and the analysis interval that were set and are neither
\* cleared nor run, each hold timeout with the analysis periods left until it is
\* due (which also names it: no two are set in one frame). The callbacks run
\* because they are in the table, whatever the refs say. The init timer is the
\* lifecycle "mounted".

HoldTimer(left) == [kind |-> "hold", left |-> left]
IntervalTimer == [kind |-> "interval", left |-> 0]

\* window.clearTimeout(id) for the id of a hold timeout
clearTimeout(timers, id) ==
    SelectSeq(timers, LAMBDA e : ~(e.kind = "hold" /\ e.left = id))

\* window.clearInterval(analysisIntervalRef.current)
clearInterval(timers) == SelectSeq(timers, LAMBDA e : e.kind # "interval")

\* one analysis period passes for the timers of the table
ElapseTimers(timers) ==
    [i \in 1..Len(timers) |->
        IF timers[i].kind = "hold" /\ timers[i].left > 0
        THEN HoldTimer(timers[i].left - 1) ELSE timers[i]]

HoldTimers(timers) == SelectSeq(timers, LAMBDA e : e.kind = "hold")

\* the table after analyzeAudio: a frame with signal clears the timeout of
\* signalHoldTimerRef, a silent frame sets one when needsHoldTimer says so
analyzeAudioTimers(h, timers, rms) ==
    IF ~Analysed(h) THEN timers
    ELSE IF rms > SIGNAL_THRESHOLD THEN
        IF h.refs.signalHoldTimerRef # None
        THEN clearTimeout(timers, Get(h.refs.signalHoldTimerRef))
        ELSE timers
    ELSE IF needsHoldTimer(h) THEN Append(timers, HoldTimer(HoldFrames))
    ELSE timers

\* a stopTuner that leaves the hold timeout in the table
stopTunerTimersKeepingHold(h, timers) ==
    IF h.refs.analysisIntervalRef THEN clearInterval(timers) ELSE timers

\* the table after stopTuner
stopTunerTimers(h, timers) ==
    LET cleared == IF h.refs.analysisIntervalRef THEN clearInterval(timers) ELSE timers
    IN  IF h.refs.signalHoldTimerRef # None
        THEN clearTimeout(cleared, Get(h.refs.signalHoldTimerRef))
        ELSE cleared

\* the table without its first hold timeout that is due
RemoveDue(timers) ==
    LET i == CHOOSE k \in 1..Len(timers) :
                 /\ timers[k].kind = "hold" /\ timers[k].left = 0
                 /\ \A j \in 1..(k - 1) : ~(timers[j].kind = "hold" /\ timers[j].left = 0)
    IN  SubSeq(timers, 1, i - 1) \o SubSeq(timers, i + 1, Len(timers))

\* startTuner resolves: on success setInterval is called
InitializeSettlesScheduling(granted) ==
    /\ InitializeSettles(granted)
    /\ pending' = IF granted /\ analyzer.audioContext
                  THEN Append(pending, IntervalTimer) ELSE pending
    /\ UNCHANGED traceVars

\* the analysis interval of the table fires
IntervalFires(rms, frequency) ==
    /\ \E i \in 1..Len(pending) : pending[i].kind = "interval"
    /\ \E h \in {Elapse(Hook)} :
          /\ \E detected \in {IF Candidate(h, rms, frequency)
                              THEN detectNote(h.detector, frequency,
                                              h.state.referenceFreq, h.state.useFlats)
                              ELSE [d |-> h.detector, ret |-> None]} :
                \E after \in {analyzeAudio(h, rms, frequency, detected)} : Commit(after)
          /\ \E timers \in {analyzeAudioTimers(h, ElapseTimers(pending), rms)} :
                /\ pending' = timers
                /\ call' = [op |-> "analyzeAudio",
                            cleared |-> Len(HoldTimers(timers)) < Len(HoldTimers(pending)),
                            set |-> Len(HoldTimers(timers)) > Len(HoldTimers(pending))]
    /\ \E analysed \in {Analysed(Hook)}, candidate \in {Candidate(Hook, rms, frequency)} :
          /\ lastOp' = [op |-> "analyzeAudio", analysed |-> analysed, rms |-> rms,
                        candidate |-> IF candidate THEN Some(frequency) ELSE None]
          /\ silentRun' = IF analysed /\ rms <= SIGNAL_THRESHOLD
                          THEN CountUp(silentRun) ELSE 0
          /\ noCandidateRun' = IF analysed /\ ~candidate
                               THEN CountUp(noCandidateRun) ELSE 0
    /\ UNCHANGED <<lifecycle, mounted, ret, history>>

\* a hold timeout of the table is due and its callback runs
HoldTimeoutFires ==
    /\ \E i \in 1..Len(pending) : pending[i].kind = "hold" /\ pending[i].left = 0
    /\ \E h \in {holdTimerCallback(Hook)} : Commit(h)
    /\ pending' = RemoveDue(pending)
    /\ lastOp' = [op |-> "holdTimer", cleared |-> state.currentNote]
    /\ UNCHANGED <<lifecycle, mounted, silentRun, noCandidateRun, traceVars>>

\* the component unmounts: the cleanup clears the init timer and calls stopTuner
UnmountClearing ==
    /\ Unmount
    /\ pending' = stopTunerTimers(Hook, pending)
    /\ UNCHANGED traceVars

NextTimers ==
    /\ \/ StartTuner /\ UNCHANGED <<pending, traceVars>>
       \/ \E granted \in BOOLEAN : InitializeSettlesScheduling(granted)
       \/ \E rms \in RmsInputs, frequency \in PitchInputs : IntervalFires(rms, frequency)
       \/ HoldTimeoutFires
       \/ UnmountClearing
       \/ ToggleNotation /\ UNCHANGED <<pending, traceVars>>
    /\ UNCHANGED secondVars

SpecTimers == InitDetector /\ [][NextTimers]_vars


\* ---------------------------------------------------------------------------
\* src/utils/audio-processing.ts: detectPitchYIN from the CMNDF on. yinBuffer is
\* the cumulative mean normalized difference function in hundredths, one value
\* per lag from 0 (the first element of the sequence); the RMS of the frame, in
\* thousandths, and the CMNDF are the inputs. A quotient is the pair of its
\* numerator and denominator.

threshold == 10            \* 0.1

fallbackLimit == 50        \* 0.5

YinAt(yinBuffer, tau) == yinBuffer[tau + 1]

tauMin(sampleRate) == Max(2, (4 * sampleRate) \div MAX_FREQUENCY)

tauMax(halfSize, sampleRate) == Min(halfSize - 1, (4 * sampleRate) \div MIN_FREQUENCY)

\* a first pass that stops at the first lag below the threshold
walkDownNowhere(yinBuffer, tau, maxTau) == tau

\* "Walk down to the local minimum"
RECURSIVE walkDown(_, _, _)
walkDown(yinBuffer, tau, maxTau) ==
    IF tau + 1 < maxTau /\ YinAt(yinBuffer, tau + 1) < YinAt(yinBuffer, tau)
    THEN walkDown(yinBuffer, tau + 1, maxTau)
    ELSE tau

\* "First pass: find first dip below threshold"; -1 when there is none
RECURSIVE firstDip(_, _, _)
firstDip(yinBuffer, tau, maxTau) ==
    IF tau >= maxTau THEN -1
    ELSE IF YinAt(yinBuffer, tau) < threshold THEN walkDown(yinBuffer, tau, maxTau)
    ELSE firstDip(yinBuffer, tau + 1, maxTau)

\* "Fallback: ... use the global minimum": bestTau and bestValue after the loop
RECURSIVE globalMinimum(_, _, _, _)
globalMinimum(yinBuffer, tau, maxTau, best) ==
    IF tau >= maxTau THEN best
    ELSE globalMinimum(yinBuffer, tau + 1, maxTau,
                       IF YinAt(yinBuffer, tau) < best.bestValue
                       THEN [bestTau |-> tau, bestValue |-> YinAt(yinBuffer, tau)]
                       ELSE best)

parabolicInterpolation(yinBuffer, tau, maxTau) ==
    LET s0 == YinAt(yinBuffer, tau - 1)
        s1 == YinAt(yinBuffer, tau)
        s2 == YinAt(yinBuffer, tau + 1)
        denominator == 2 * (2 * s1 - s2 - s0)
    IN  IF tau <= 0 \/ tau >= maxTau - 1 THEN [num |-> tau, den |-> 1]
        ELSE IF denominator = 0 THEN [num |-> tau, den |-> 1]
        ELSE IF Abs(s2 - s0) > Abs(denominator) THEN [num |-> tau, den |-> 1]
        ELSE [num |-> tau * denominator + (s2 - s0), den |-> denominator]

\* the frequency returned and the lag chosen (-1: none)
detectPitchYIN(rms, yinBuffer, sampleRate) ==
    LET halfSize == Len(yinBuffer)
        lo == tauMin(sampleRate)
        hi == tauMax(halfSize, sampleRate)
        dip == firstDip(yinBuffer, lo, hi)
        best == IF dip >= 0 THEN [bestTau |-> dip, bestValue |-> 100]
                ELSE globalMinimum(yinBuffer, lo, hi,
                                   [bestTau |-> -1, bestValue |-> 100])
        refinedTau == parabolicInterpolation(yinBuffer, best.bestTau, hi)
        noPitch == [frequency |-> [num |-> 0, den |-> 1], bestTau |-> -1]
    IN  IF rms < SIGNAL_THRESHOLD THEN noPitch
        ELSE IF dip < 0 /\ best.bestValue > fallbackLimit THEN noPitch
        ELSE IF best.bestTau < 0 THEN noPitch
        ELSE [frequency |-> [num |-> sampleRate * refinedTau.den,
                             den |-> refinedTau.num],
              bestTau |-> best.bestTau]

\* the number of lags of the CMNDF (half the length of the frame)
YinHalfSize == 7

\* CMNDF values on both sides of the threshold and of the fallback limit
YinValues == {5, 9, 10, 50, 51}

\* the CMNDF of a frame: 1.0 at the lags 0 and 1
YinBuffers ==
    {<<100, 100>> \o y : y \in [1..(YinHalfSize - 2) -> YinValues]}

\* sample rates that put tauMin at 2, at 3 and beyond the lags of the frame
SampleRates == {8000, 16000, 44100}

\* a frame is at hand: its RMS, its CMNDF and the sample rate of the context
YinFrame ==
    /\ frequencyBuffer = <<>>
    /\ lastValidNoteInfo = None
    /\ noteHoldCounter = 0
    /\ \E rms \in {SIGNAL_THRESHOLD - 1, SIGNAL_THRESHOLD}, y \in YinBuffers,
          sampleRate \in SampleRates :
          call = [op |-> "frame", rms |-> rms, yinBuffer |-> y,
                  sampleRate |-> sampleRate]
    /\ ret = None
    /\ history = <<>>

DetectPitchYIN ==
    /\ call.op = "frame"
    /\ ret' = Some(detectPitchYIN(call.rms, call.yinBuffer, call.sampleRate))
    /\ call' = [call EXCEPT !.op = "detectPitchYIN"]
    /\ UNCHANGED <<detectorVars, history>>

NextYin ==
    /\ DetectPitchYIN
    /\ UNCHANGED <<secondVars, hookVars>>

InitYin == YinFrame /\ NewSecondDetector /\ NewHook

SpecYin == InitYin /\ [][NextYin]_vars


\* ---------------------------------------------------------------------------
\* src/components/metronome.tsx and src/components/tap-tempo.tsx: Metronome as
\* the child of TapTempo. Here state holds the useState values of both components,
\* refs the refs of Metronome and pending what React and the browser have yet to
\* do: the state each component was last rendered with (a component whose state
\* differs from it is rendered again; event handlers read the rendered values)
\* and the initialBpm prop of that render, and whether an animation frame
\* callback is waiting. The tempo TapTempo computes from the taps is an input.

MIN_BPM == 40

MAX_BPM == 240

DEFAULT_BPM == 120

\* Math.min(Math.max(40, bpm), 240)
metronomeValidBpm(bpm) == Min(Max(MIN_BPM, bpm), MAX_BPM)

\* TapTempo.handleMetronomeStateChange; the timeout that ends the animation is
\* the action AnimationEnds
handleMetronomeStateChange(w, playing, beat) ==
    [w EXCEPT !.tap = [w.tap EXCEPT !.isMetronomePlaying = playing,
                                    !.currentBeat = beat,
                                    !.isAnimating = IF playing /\ beat = 1
                                                    THEN TRUE ELSE @]]

\* an initialBpm effect that passes the tempo on as it is
initialBpmEffectUnclamped(w, initialBpm) ==
    IF initialBpm > 0
    THEN [w EXCEPT !.m = [w.m EXCEPT !.displayBpm = initialBpm, !.bpm = initialBpm],
                   !.r = [w.r EXCEPT !.bpmRef = initialBpm]]
    ELSE w

\* "Update BPM when initialBpm changes"
initialBpmEffect(w, initialBpm) ==
    IF initialBpm > 0
    THEN [w EXCEPT !.m = [w.m EXCEPT !.displayBpm = initialBpm,
                                     !.bpm = metronomeValidBpm(initialBpm)],
                   !.r = [w.r EXCEPT !.bpmRef = metronomeValidBpm(initialBpm)]]
    ELSE w

\* "Handle time signature change", with the state of the render it belongs to
timeSignatureEffect(w, cur) ==
    handleMetronomeStateChange(
        [w EXCEPT !.m = [w.m EXCEPT !.beatsPerMeasure = cur.timeSignature[1],
                                    !.isCompoundMeter =
                                        cur.timeSignature[1] \in {6, 9, 12}
                                        /\ cur.timeSignature[2] = 8,
                                    !.currentBeat = 0],
                  !.r = [w.r EXCEPT !.beatsPerMeasureRef = cur.timeSignature[1],
                                    !.beatCountRef = 0]],
        cur.isPlaying, 0)

\* "Update BPM ref when BPM changes"
bpmEffect(w, cur) ==
    [w EXCEPT !.r = [w.r EXCEPT !.bpmRef = metronomeValidBpm(cur.bpm)]]

\* "Update isPlayingRef when isPlaying changes"
isPlayingEffect(w, cur) == [w EXCEPT !.r = [w.r EXCEPT !.isPlayingRef = cur.isPlaying]]

\* "Notify parent component of state changes"
stateChangeEffect(w, cur) == handleMetronomeStateChange(w, cur.isPlaying, cur.currentBeat)

\* the effects of Metronome after a render with the state cur, in their order:
\* each runs when one of its dependencies differs from the render before (state
\* seen, prop initialBpm; onStateChange is a new function whenever TapTempo has
\* rendered)
runEffects(w, cur, seen, initialBpm, seenInitialBpm, newOnStateChange) ==
    LET e1 == IF initialBpm # seenInitialBpm THEN initialBpmEffect(w, initialBpm)
              ELSE w
        e2 == IF \/ cur.timeSignature # seen.timeSignature
                 \/ cur.isPlaying # seen.isPlaying
                 \/ newOnStateChange
              THEN timeSignatureEffect(e1, cur) ELSE e1
        e3 == IF cur.bpm # seen.bpm THEN bpmEffect(e2, cur) ELSE e2
        e4 == IF cur.isPlaying # seen.isPlaying THEN isPlayingEffect(e3, cur) ELSE e3
    IN  IF \/ cur.isPlaying # seen.isPlaying
           \/ cur.currentBeat # seen.currentBeat
           \/ newOnStateChange
        THEN stateChangeEffect(e4, cur) ELSE e4

\* playClick: the beat counter advances; the animation frame callback is the
\* action AnimationFrame
playClick(w) ==
    IF ~w.r.audioContextRef \/ ~w.r.isPlayingRef THEN w
    ELSE [w EXCEPT !.r = [w.r EXCEPT !.beatCountRef =
                              (w.r.beatCountRef + 1) % w.r.beatsPerMeasureRef]]

\* toggleMetronome, isPlaying being the value of the render the handler belongs
\* to; the AudioContext can be created. On start scheduler() runs at once and the
\* first note, due in 50 ms, is within its window of 100 ms.
toggleMetronome(w, isPlaying) ==
    LET ensured == [w EXCEPT !.r = [w.r EXCEPT !.audioContextRef = TRUE]]
    IN  IF isPlaying
        THEN [ensured EXCEPT !.m = [ensured.m EXCEPT !.isPlaying = FALSE,
                                                     !.currentBeat = 0],
                             !.r = [ensured.r EXCEPT !.timerIDRef = FALSE,
                                                     !.isPlayingRef = FALSE,
                                                     !.beatCountRef = 0]]
        ELSE LET started ==
                     [ensured EXCEPT !.m = [ensured.m EXCEPT !.isPlaying = TRUE,
                                                             !.currentBeat = 0],
                                     !.r = [ensured.r EXCEPT !.isPlayingRef = TRUE,
                                                             !.beatCountRef = 0]]
                 clicked == playClick(started)
             IN  [clicked EXCEPT !.r = [clicked.r EXCEPT !.timerIDRef = TRUE]]

\* handleBpmChange with the slider's value; onBpmChange sets TapTempo's bpm
handleBpmChange(w, newBpm) ==
    [w EXCEPT !.m = [w.m EXCEPT !.displayBpm = newBpm, !.bpm = newBpm],
              !.r = [w.r EXCEPT !.bpmRef = newBpm],
              !.tap = [w.tap EXCEPT !.bpm = Some(newBpm)]]

\* adjustBpm, bpm being the value of the render the handler belongs to
adjustBpm(w, bpm, amount) == handleBpmChange(w, metronomeValidBpm(bpm + amount))

World == [tap |-> state.tap, m |-> state.m, r |-> refs]

CommitWorld(w) ==
    /\ state' = [tap |-> w.tap, m |-> w.m]
    /\ refs' = w.r

\* no component is waiting to be rendered
Rendered == state.tap = pending.tap /\ state.m = pending.m

\* TapTempo and Metronome after their first render and its effects
NewTapTempo ==
    /\ state = [tap |-> [bpm |-> None, isAnimating |-> FALSE,
                         isMetronomePlaying |-> FALSE, currentBeat |-> 0],
                m |-> [isPlaying |-> FALSE, bpm |-> DEFAULT_BPM, currentBeat |-> 0,
                       timeSignature |-> <<4, 4>>, beatsPerMeasure |-> 4,
                       isCompoundMeter |-> FALSE, displayBpm |-> DEFAULT_BPM]]
    /\ refs = [audioContextRef |-> FALSE, timerIDRef |-> FALSE, beatCountRef |-> 0,
               bpmRef |-> DEFAULT_BPM, beatsPerMeasureRef |-> 4,
               isPlayingRef |-> FALSE]
    /\ pending = [tap |-> state.tap, m |-> state.m, initialBpm |-> DEFAULT_BPM,
                  animationFrame |-> FALSE]
    /\ lastOp = [op |-> "mount"]
    /\ analyzer = [audioContext |-> FALSE, stream |-> FALSE, isInitialized |-> FALSE]
    /\ lifecycle = "mounted"
    /\ mounted = TRUE
    /\ silentRun = 0
    /\ noCandidateRun = 0

\* the values of the slider, of the time signature menu and of the tempo tapped
\* (none after a pause, 30 and 300 beats per minute)
SliderInputs == {MIN_BPM, MAX_BPM}
TimeSignatureInputs == {<<3, 4>>, <<4, 4>>, <<6, 8>>}
TapBpmInputs == {None, Some(30), Some(300)}

\* tempos at which the + and - buttons are pressed
AdjustableBpm == {MIN_BPM, MIN_BPM + 1, DEFAULT_BPM, MAX_BPM - 1, MAX_BPM}

\* React renders TapTempo, whose state has changed, and with it Metronome, which
\* gets a new onStateChange; then the effects of Metronome run
RenderTapTempo ==
    /\ state.tap # pending.tap
    /\ \E initialBpm \in {IF state.tap.bpm = None \/ state.tap.bpm = Some(0)
                          THEN DEFAULT_BPM ELSE Get(state.tap.bpm)} :
          /\ \E w \in {runEffects(World, state.m, pending.m, initialBpm,
                                  pending.initialBpm, TRUE)} : CommitWorld(w)
          /\ pending' = [pending EXCEPT !.tap = state.tap, !.m = state.m,
                                        !.initialBpm = initialBpm]
    /\ lastOp' = [op |-> "render", component |-> "TapTempo"]

\* React renders Metronome alone, whose state has changed; then its effects run
RenderMetronome ==
    /\ state.tap = pending.tap
    /\ state.m # pending.m
    /\ \E w \in {runEffects(World, state.m, pending.m, pending.initialBpm,
                            pending.initialBpm, FALSE)} : CommitWorld(w)
    /\ pending' = [pending EXCEPT !.m = state.m]
    /\ lastOp' = [op |-> "render", component |-> "Metronome"]

\* the metronome button is pressed
ToggleMetronome ==
    /\ Rendered
    /\ \E w \in {toggleMetronome(World, pending.m.isPlaying)} : CommitWorld(w)
    /\ pending' = [pending EXCEPT !.animationFrame =
                       IF pending.m.isPlaying THEN @ ELSE TRUE]
    /\ lastOp' = [op |-> "toggleMetronome"]

\* the scheduler's timer fires and a note is due: playClick
PlayClick ==
    /\ refs.timerIDRef
    /\ refs.audioContextRef
    /\ refs.isPlayingRef
    /\ \E w \in {playClick(World)} : CommitWorld(w)
    /\ pending' = [pending EXCEPT !.animationFrame = TRUE]
    /\ lastOp' = [op |-> "playClick", beat |-> refs.beatCountRef]

\* the callback playClick gave to requestAnimationFrame runs
AnimationFrame ==
    /\ pending.animationFrame
    /\ state' = IF refs.isPlayingRef
                THEN [state EXCEPT !.m = [state.m EXCEPT !.currentBeat =
                                              refs.beatCountRef]]
                ELSE state
    /\ pending' = [pending EXCEPT !.animationFrame = FALSE]
    /\ lastOp' = [op |-> "animationFrame"]
    /\ UNCHANGED refs

\* a time signature is chosen
SetTimeSignature(timeSignature) ==
    /\ Rendered
    /\ state' = [state EXCEPT !.m = [state.m EXCEPT !.timeSignature = timeSignature]]
    /\ lastOp' = [op |-> "setTimeSignature"]
    /\ UNCHANGED <<refs, pending>>

\* the slider is moved
HandleBpmChange(newBpm) ==
    /\ Rendered
    /\ \E w \in {handleBpmChange(World, newBpm)} : CommitWorld(w)
    /\ lastOp' = [op |-> "handleBpmChange"]
    /\ UNCHANGED pending

\* the + or the - button is pressed
AdjustBpm(amount) ==
    /\ Rendered
    /\ pending.m.bpm \in AdjustableBpm
    /\ \E w \in {adjustBpm(World, pending.m.bpm, amount)} : CommitWorld(w)
    /\ lastOp' = [op |-> "adjustBpm"]
    /\ UNCHANGED pending

\* handleTap has computed a tempo from the taps (or none, after a pause)
TapBpm(bpm) ==
    /\ Rendered
    /\ state' = [state EXCEPT !.tap = [state.tap EXCEPT
                                           !.bpm = bpm,
                                           !.isAnimating = IF bpm = None THEN @
                                                           ELSE TRUE]]
    /\ lastOp' = [op |-> "handleTap"]
    /\ UNCHANGED <<refs, pending>>

\* setTimeout(() => setIsAnimating(false), 100)
AnimationEnds ==
    /\ state.tap.isAnimating
    /\ state' = [state EXCEPT !.tap = [state.tap EXCEPT !.isAnimating = FALSE]]
    /\ lastOp' = [op |-> "animationEnds"]
    /\ UNCHANGED <<refs, pending>>

NextMetronome ==
    /\ \/ RenderTapTempo
       \/ RenderMetronome
       \/ ToggleMetronome
       \/ PlayClick
       \/ AnimationFrame
       \/ \E timeSignature \in TimeSignatureInputs : SetTimeSignature(timeSignature)
       \/ \E newBpm \in SliderInputs : HandleBpmChange(newBpm)
       \/ \E amount \in {-1, 1} : AdjustBpm(amount)
       \/ \E bpm \in TapBpmInputs : TapBpm(bpm)
       \/ AnimationEnds
    /\ UNCHANGED <<detectorVars, traceVars, secondVars, analyzer, lifecycle, mounted,
                   silentRun, noCandidateRun>>

InitMetronome == NewDetector /\ NewSecondDetector /\ NewTapTempo

SpecMetronome == InitMetronome /\ [][NextMetronome]_vars


\* ---------------------------------------------------------------------------
\* src/components/tap-tempo.tsx: the taps of TapTempo. state holds taps, bpm and
\* isAnimating; call.now is the clock that Date.now() reads, in milliseconds.

TAP_RESET_MS == 2000
MAX_TAPS == 8
MS_PER_MINUTE == 60000

\* 60000 / 0 is Infinity and Math.round(Infinity) is Infinity: a value above every
\* finite tempo (at most 60000 * 7, seven intervals of one millisecond in all)
Infinity == MS_PER_MINUTE * MAX_TAPS

\* the largest odd divisor of n
RECURSIVE OddPart(_)
OddPart(n) == IF n % 2 = 0 THEN OddPart(n \div 2) ELSE n

\* Math.round of num / den, den > 0: halves go up
mathRound(num, den) == (2 * num + den) \div (2 * den)

\* for (let i = 1; i < tapTimes.length; i++) intervals.push(tapTimes[i] - tapTimes[i - 1])
intervals(tapTimes) ==
    [i \in 1..(Len(tapTimes) - 1) |-> tapTimes[i + 1] - tapTimes[i]]

\* The results of calculateBPM in double arithmetic. The sum of the intervals
\* is exact. averageInterval is exact when the odd part of the number of
\* intervals divides the sum, and is rounded to a double otherwise; the
\* quotient 60000 / averageInterval is rounded again. The two roundings move
\* the quotient by less than 2^-40, which changes Math.round only when the
\* exact quotient is halfway between two integers: there the double falls on
\* either side (three intervals of 1600 ms in all give 112.49999999999999).
calculateBPM(tapTimes) ==
    IF Len(tapTimes) < 2 THEN {None}
    ELSE LET sum == SumSeq(intervals(tapTimes))
             n == Len(tapTimes) - 1
         IN IF sum = 0 THEN {Some(Infinity)}
            ELSE LET exactAverage == sum % OddPart(n) = 0
                     halfway == /\ (2 * MS_PER_MINUTE * n) % sum = 0
                                /\ ((2 * MS_PER_MINUTE * n) \div sum) % 2 = 1
                     up == mathRound(MS_PER_MINUTE * n, sum)
                 IN IF halfway /\ ~exactAverage THEN {Some(up - 1), Some(up)}
                    ELSE {Some(up)}

\* items.slice(-n)
sliceLast(items, n) ==
    IF Len(items) <= n THEN items
    ELSE SubSeq(items, Len(items) - n + 1, Len(items))

\* handleTap that starts over at 2000 ms already
handleTapResetAtLimit(tap, now) ==
    IF Len(tap.taps) > 0 /\ now - tap.taps[Len(tap.taps)] >= TAP_RESET_MS
    THEN {[tap EXCEPT !.taps = <<now>>, !.bpm = None]}
    ELSE LET newTaps == sliceLast(Append(tap.taps, now), MAX_TAPS)
         IN {[taps |-> newTaps, bpm |-> b, isAnimating |-> TRUE] :
                b \in IF Len(newTaps) >= 2 THEN calculateBPM(newTaps) ELSE {tap.bpm}}

\* handleTap at the time now: the states of TapTempo it can leave
handleTap(tap, now) ==
    IF Len(tap.taps) > 0 /\ now - tap.taps[Len(tap.taps)] > TAP_RESET_MS
    THEN {[tap EXCEPT !.taps = <<now>>, !.bpm = None]}
    ELSE LET newTaps == sliceLast(Append(tap.taps, now), MAX_TAPS)
         IN {[taps |-> newTaps, bpm |-> b, isAnimating |-> TRUE] :
                b \in IF Len(newTaps) >= 2 THEN calculateBPM(newTaps) ELSE {tap.bpm}}

\* the time between two taps: none, a quarter of a second, 1600 ms (37.5 beats
\* per minute), and the two sides of the reset limit
TapGaps == {0, 250, 1600, TAP_RESET_MS, TAP_RESET_MS + 1}

\* the clock stops here
MaxNow == 4500

\* TapTempo after its first render
NewTaps ==
    /\ frequencyBuffer = <<>>
    /\ lastValidNoteInfo = None
    /\ noteHoldCounter = 0
    /\ call = [op |-> "mount", now |-> 0]
    /\ ret = None
    /\ history = <<>>
    /\ state = [taps |-> <<>>, bpm |-> None, isAnimating |-> FALSE]
    /\ refs = [audioContextRef |-> FALSE, timerIDRef |-> FALSE, beatCountRef |-> 0,
               bpmRef |-> DEFAULT_BPM, beatsPerMeasureRef |-> 4,
               isPlayingRef |-> FALSE]
    /\ pending = <<>>
    /\ lastOp = [op |-> "mount"]
    /\ analyzer = [audioContext |-> FALSE, stream |-> FALSE, isInitialized |-> FALSE]
    /\ lifecycle = "mounted"
    /\ mounted = TRUE
    /\ silentRun = 0
    /\ noCandidateRun = 0

\* the tap button is pressed, or a key, gap milliseconds after the last event
HandleTap(gap) ==
    /\ call.now + gap <= MaxNow
    /\ \E now \in {call.now + gap} :
          /\ \E tap \in handleTap(state, now) : state' = tap
          /\ call' = [op |-> "handleTap", now |-> now]
    /\ lastOp' = [op |-> "handleTap"]

\* Metronome reports a tempo set with its slider or its buttons: setBpm(newBpm)
OnBpmChange(newBpm) ==
    /\ state' = [state EXCEPT !.bpm = Some(newBpm)]
    /\ call' = [call EXCEPT !.op = "onBpmChange"]
    /\ lastOp' = [op |-> "onBpmChange"]

\* setTimeout(() => setIsAnimating(false), 100)
TapAnimationEnds ==
    /\ state.isAnimating
    /\ state' = [state EXCEPT !.isAnimating = FALSE]
    /\ call' = [call EXCEPT !.op = "animationEnds"]
    /\ lastOp' = [op |-> "animationEnds"]

NextTaps ==
    /\ \/ \E gap \in TapGaps : HandleTap(gap)
       \/ \E newBpm \in SliderInputs : OnBpmChange(newBpm)
       \/ TapAnimationEnds
    /\ UNCHANGED <<detectorVars, ret, history, secondVars, refs, pending, analyzer,
                   lifecycle, mounted, silentRun, noCandidateRun>>

InitTaps == NewTaps /\ NewSecondDetector

SpecTaps == InitTaps /\ [][NextTaps]_vars


\* ---------------------------------------------------------------------------
\* Claims about NoteDetector, checked under SpecDetector

LastCallQualified == call.op = "detectNote" /\ call.frequency > 0

\* C1: once a note X is locked, the returned note changes only on a call that was
\* preceded by a call mapping to a note other than X and that itself maps to a
\* note other than X (noteHoldThreshold = 2 consecutive disagreeing calls), and
\* that call leaves noteHoldCounter at 0; a single disagreeing call returns X.
C1_SwitchNeedsHoldThreshold ==
    (Len(history) = 2 /\ history[1].returned # None
        /\ history[2].returned # history[1].returned)
    => /\ history[1].mapped # Get(history[1].returned)
       /\ history[2].mapped # Get(history[1].returned)
       /\ history[2].returned = Some(history[2].mapped)
       /\ noteHoldCounter = 0

\* a locked note was switched on the last qualifying call
C1_Witness ==
    /\ Len(history) = 2
    /\ history[1].returned # None
    /\ history[2].returned # history[1].returned
    /\ history[2].returned # None

\* C2: from no locked note, a note is first returned only by a call that maps to
\* the same note as the qualifying call before it.
C2_FirstLockNeedsSameNoteTwice ==
    (LastCallQualified /\ ret # None
        /\ (Len(history) < 2 \/ history[1].returned = None))
    => /\ Len(history) = 2
       /\ history[1].mapped = history[2].mapped

\* C9: every result returned while a note is locked names the locked note and
\* carries cents of the smoothed frequency against the locked note's exact
\* frequency, also when the frame mapped to another note and is held off.
C9_CentsAgainstLockedNote ==
    (call.op = "detectNote" /\ ret # None)
    => /\ lastValidNoteInfo # None
       /\ Get(ret).note = Get(lastValidNoteInfo).note
       /\ Get(ret).exactFrequency = Get(lastValidNoteInfo).exactFrequency
       /\ Get(ret).frequency = getMedianFrequency(frequencyBuffer)
       /\ Get(ret).cents = CentsAgainst(getMedianFrequency(frequencyBuffer),
                                        Get(lastValidNoteInfo).exactFrequency)

\* a differing frame is being held off and its cents lie beyond half a semitone
C9_Witness ==
    /\ LastCallQualified
    /\ ret # None
    /\ history[Len(history)].mapped # Get(ret).note
    /\ noteHoldCounter = 1
    /\ Abs(Get(ret).cents) > 50

\* ---------------------------------------------------------------------------
\* Claim about spelling, checked under SpecSpelling

\* everything in a result but the spelled strings
Unspelled(r) ==
    IF r = None THEN None
    ELSE Some([octave |-> Get(r).octave, exactFrequency |-> Get(r).exactFrequency,
               frequency |-> Get(r).frequency, cents |-> Get(r).cents,
               tuningStatus |-> Get(r).tuningStatus, isLocked |-> Get(r).isLocked,
               smoothedFrequency |-> Get(r).smoothedFrequency,
               confidence |-> Get(r).confidence])

\* C10: two detectors given the same frequencies and reference pitch but any
\* useFlats values return results that differ in the note and noteName strings
\* only (both null, or equal in pitch, octave, exact frequency, cents, tuning
\* status and isLocked).
C10_UseFlatsIsSpellingOnly == Unspelled(ret) = Unspelled(ret2)

\* ---------------------------------------------------------------------------
\* Claims about useTuner (median-filter revision), checked under SpecTuner

\* the last step was an analysed frame whose RMS is not above SIGNAL_THRESHOLD
SilentFrame ==
    lastOp.op = "analyzeAudio" /\ lastOp.analysed /\ lastOp.rms <= SIGNAL_THRESHOLD

\* the reading shows no signal, no note, no tuning status and no lock
IdleReading ==
    /\ ~state.signalDetected
    /\ state.currentNote = None
    /\ state.tuningStatus = None
    /\ ~state.isNoteLocked

\* C4: whenever signalDetected is false, currentNote, currentNoteWithoutOctave,
\* currentOctave and displayFrequency are all null.
C4_NoSignalShowsNoNote ==
    ~state.signalDetected
    => /\ state.currentNote = None
       /\ state.currentNoteWithoutOctave = None
       /\ state.currentOctave = None
       /\ state.displayFrequency = None

\* the hold timer has just taken a displayed note off the display
C4_Witness ==
    /\ lastOp.op = "holdTimer"
    /\ lastOp.cleared # None
    /\ ~state.signalDetected
    /\ state.displayFrequency = None

\* C5 as stated: after every analysed frame with rms <= SIGNAL_THRESHOLD the
\* reading has signalDetected = false and currentNote = null.
C5_SilentFrameClearsReading ==
    SilentFrame => (~state.signalDetected /\ state.currentNote = None)

\* C5 amended: an analysed frame with rms <= SIGNAL_THRESHOLD leaves the reading as
\* it was; if no signal was shown before it, signalDetected is false and
\* currentNote is null after it, and if a note was shown the note stays and a hold
\* timer is pending after it.
C5_SilentFrameHoldsReading ==
    [][SilentFrame'
       => /\ state' = state
          /\ ~state.signalDetected
                => (~state'.signalDetected /\ state'.currentNote = None)
          /\ state.signalDetected
                => (state'.currentNote # None /\ refs'.signalHoldTimerRef # None)]_vars

\* a first silent frame has come in while a note is displayed and has started the
\* hold timer
C5_Witness ==
    /\ SilentFrame
    /\ silentRun = 1
    /\ state.signalDetected
    /\ state.currentNote # None
    /\ refs.signalHoldTimerRef = Some(HoldFrames)

\* C6: during silence after a displayed note the hold timer is pending and is due
\* once SIGNAL_HOLD_TIME has passed since the first silent frame; when it has
\* fired, signalDetected is false, currentNote and tuningStatus are null and
\* isNoteLocked is false, and every further silent frame leaves the reading so.
C6_SilenceResetsReadingAfterHold ==
    /\ []((silentRun >= 1 /\ state.signalDetected)
            => /\ refs.signalHoldTimerRef # None
               /\ Get(refs.signalHoldTimerRef) + silentRun <= HoldFrames + 1)
    /\ [][/\ lastOp'.op = "holdTimer" => IdleReading'
          /\ (IdleReading /\ SilentFrame') => IdleReading']_vars

\* the hold timer has fired after a displayed note was followed by silence for
\* the hold time
C6_Witness ==
    /\ lastOp.op = "holdTimer"
    /\ lastOp.cleared # None
    /\ silentRun >= HoldFrames
    /\ IdleReading

\* C7: once silence has lasted longer than the hold time and no hold timer is
\* pending, the detector's frequency buffer, hold counter and locked note are
\* cleared, whether a note was locked or only a first candidate had been fed.
C7_SilenceClearsDetector ==
    (silentRun > HoldFrames /\ refs.signalHoldTimerRef = None)
    => Detector = resetDetector

\* C8: once frames without a candidate (silent, or with signal but no pitch in
\* range) have lasted longer than the hold time and no hold timer is pending,
\* the display is idle.
C8_NoCandidateReturnsToIdle ==
    (noCandidateRun > HoldFrames /\ refs.signalHoldTimerRef = None)
    => IdleReading

\* ---------------------------------------------------------------------------
\* Claims about useTuner (adaptive-threshold revision), checked under SpecAdaptive

\* C3: in every reachable state of useTuner a tuning status that is not null is
\* accompanied by a current note that is not null, also at the moment the frames
\* that differ from the locked note reach the switch threshold.
C3_TuningStatusHasNote == state.tuningStatus # None => state.currentNote # None

\* ---------------------------------------------------------------------------
\* Claim about reset(), checked under SpecReset

\* C11: after reset() the buffer is empty, no note is locked and the hold counter
\* is 0, and the calls that follow return on the reset detector what they return
\* on a newly constructed detector, leaving both with the same fields.
C11_ResetIsLikeNew ==
    /\ call.op = "reset" => Detector = newNoteDetector
    /\ Compared => (Detector = Detector2 /\ ret = ret2)

\* after a reset both detectors have locked a note and a differing frame is
\* being held off
C11_Witness ==
    /\ Compared
    /\ ret # None
    /\ ret = ret2
    /\ noteHoldCounter = 1


\* ---------------------------------------------------------------------------
\* More claims about NoteDetector, checked under SpecDetector

\* C12: a detectNote call with a frequency that is 0 or negative returns null
\* and leaves the frequency buffer, the locked note and the hold counter as they
\* were.
C12_NoCandidateChangesNothing ==
    [][(call'.op = "detectNote" /\ call'.frequency <= 0)
        => (ret' = None /\ UNCHANGED detectorVars)]_vars

\* a call with a negative frequency was made while a note is locked and a
\* differing frame is being held off
C12_Witness ==
    /\ call.op = "detectNote"
    /\ call.frequency < 0
    /\ ret = None
    /\ lastValidNoteInfo # None
    /\ noteHoldCounter = 1
    /\ Len(frequencyBuffer) = bufferSize


\* ---------------------------------------------------------------------------
\* Claim about octave errors, checked under SpecOctave

\* the last two calls returned one and the same note, the note their smoothed
\* frequencies mapped to
SettledOnOneNote ==
    /\ Len(history) = 2
    /\ history[2].returned # None
    /\ history[2].returned = history[1].returned
    /\ history[2].returned = Some(history[2].mapped)
    /\ history[1].returned = Some(history[1].mapped)

\* C13: a stream of candidates alternating between f and 2f, started on an empty
\* buffer with either of the two, comes to return one and the same note on every
\* call and from then on never alternates between the two octaves.
C13_AlternatingOctavesSettle == <>[]SettledOnOneNote

\* the stream has settled although the last candidate lies an octave away from
\* the note returned for it
C13_Witness ==
    /\ SettledOnOneNote
    /\ call.op = "detectNote"
    /\ Abs(2 * call.frequency - 2 * getMedianFrequency(frequencyBuffer))
           > getMedianFrequency(frequencyBuffer)
    /\ Len(frequencyBuffer) = bufferSize


\* ---------------------------------------------------------------------------
\* Claim about the octave correction, checked under SpecCorrection

\* C14: with at least 3 frequencies in the buffer, a candidate within 10% of the
\* double of the buffer median is inserted halved, a candidate within 10% of the
\* half of the buffer median is inserted doubled, and any other candidate is
\* inserted unchanged.
C14_OctaveCorrectionWithinTenPercent ==
    [][(call'.op = "detectNote" /\ call'.frequency > 0 /\ Len(frequencyBuffer) >= 3)
        => LET median == getMedianFrequency(frequencyBuffer)
               candidate == call'.frequency
               inserted == frequencyBuffer'[Len(frequencyBuffer')]
           IN  IF 10 * Abs(candidate - 2 * median) <= 2 * median
               THEN 2 * inserted = candidate
               ELSE IF 10 * Abs(2 * candidate - median) <= median
               THEN inserted = 2 * candidate
               ELSE inserted = candidate]_vars


\* ---------------------------------------------------------------------------
\* Claim about the frequency history, checked under SpecFifo

\* the buffer after a push: the entries before it in their order, without the
\* oldest when the buffer was full, and one new entry at the end
PushedOnto(before, after, size) ==
    /\ after # <<>>
    /\ SubSeq(after, 1, Len(after) - 1) =
           (IF Len(before) >= size THEN Tail(before) ELSE before)

\* C15: after every detectNote call the frequency history is no longer than
\* bufferSize, and a push onto a full history evicts exactly the oldest entry
\* while the other entries keep their insertion order, in the hysteresis
\* revision and in the weighted-smoothing revision.
C15_HistoryIsBoundedFifo ==
    /\ [](Len(frequencyBuffer) <= bufferSize
          /\ Len(frequencyBuffer2) <= weightedBufferSize)
    /\ [][call'.op = "detectNote" /\ call'.frequency > 0
          => /\ PushedOnto(frequencyBuffer, frequencyBuffer', bufferSize)
             /\ PushedOnto(frequencyBuffer2, frequencyBuffer2', weightedBufferSize)
             /\ frequencyBuffer2'[Len(frequencyBuffer2')] = call'.frequency]_vars

\* both histories are full and the entry evicted last differed from the entry
\* that is now the oldest
C15_Witness ==
    /\ Len(frequencyBuffer) = bufferSize
    /\ Len(frequencyBuffer2) = weightedBufferSize
    /\ frequencyBuffer2[1] # frequencyBuffer2[2]
    /\ frequencyBuffer[1] # frequencyBuffer[2]
    /\ frequencyBuffer2[weightedBufferSize] # frequencyBuffer2[1]


\* ---------------------------------------------------------------------------
\* Claim about inconsistent candidates, checked under SpecDetector

\* the candidate lies within 5% of the median of the readings before it, or
\* there are fewer than 2 readings
WithinTolerance(candidate, readings) ==
    \/ Len(readings) < 2
    \/ 100 * Abs(candidate - getMedianFrequency(readings))
           <= 5 * getMedianFrequency(readings)

\* C16: every positive candidate is appended to the frequency buffer after the
\* octave correction, whether or not it is consistent with the buffer median;
\* an inconsistent candidate only halves the confidence of the result.
C16_InconsistentCandidateIsKept ==
    [][(call'.op = "detectNote" /\ call'.frequency > 0)
        => LET corrected == correctOctaveError(call'.frequency, frequencyBuffer)
               score == IF WithinTolerance(corrected, frequencyBuffer) THEN 2 ELSE 1
           IN  /\ frequencyBuffer' # <<>>
               /\ frequencyBuffer'[Len(frequencyBuffer')] = corrected
               /\ ret' # None =>
                      Get(ret').confidence = [num |-> Len(frequencyBuffer') * score,
                                              den |-> 2 * bufferSize]]_vars

\* a candidate that was judged inconsistent is the newest entry of a full
\* buffer and the result carries half the confidence
C16_Witness ==
    /\ LastCallQualified
    /\ ret # None
    /\ Len(frequencyBuffer) = bufferSize
    /\ frequencyBuffer[bufferSize] = call.frequency
    /\ Get(ret).confidence = [num |-> bufferSize, den |-> 2 * bufferSize]
    /\ 100 * Abs(call.frequency - getMedianFrequency(frequencyBuffer))
           > 5 * getMedianFrequency(frequencyBuffer)


\* ---------------------------------------------------------------------------
\* Claim about the reference pitch, checked under SpecSettings

\* C17: from the default of 440 Hz, after any sequence of adjustments by +0.5 Hz
\* and -0.5 Hz and of resets, referenceFreq lies in 420..460 Hz and is a multiple
\* of 0.5 Hz; an adjustment at a limit leaves it at the limit and a reset always
\* gives 440 Hz.
C17_ReferenceFreqStaysInRange ==
    /\ [](/\ state.referenceFreq >= Hz(420)
          /\ state.referenceFreq <= Hz(460)
          /\ state.referenceFreq % 2 = 0)
    /\ [][/\ lastOp'.op = "resetReferenceFreq" => state'.referenceFreq = Hz(440)
          /\ (lastOp'.op = "adjustReferenceFreq" /\ lastOp'.increment > 0
                 /\ state.referenceFreq = Hz(460)) => state'.referenceFreq = Hz(460)
          /\ (lastOp'.op = "adjustReferenceFreq" /\ lastOp'.increment < 0
                 /\ state.referenceFreq = Hz(420)) => state'.referenceFreq = Hz(420)
          /\ (lastOp'.op = "adjustReferenceFreq"
                 /\ state.referenceFreq + lastOp'.increment >= Hz(420)
                 /\ state.referenceFreq + lastOp'.increment <= Hz(460))
                => state'.referenceFreq = state.referenceFreq + lastOp'.increment]_vars

\* the reference pitch was raised while it was at the upper limit
C17_Witness ==
    /\ lastOp.op = "adjustReferenceFreq"
    /\ lastOp.increment > 0
    /\ lastOp.prev = Hz(460)
    /\ state.referenceFreq = Hz(460)


\* ---------------------------------------------------------------------------
\* Claims about findClosestNote, checked under SpecMap

\* the note number of the last findClosestNote call: 69 + roundedSemitone
NoteNumber == 69 + RoundLog2(12, call.frequency, call.referenceFreq)

\* C18: for every note number findClosestNote produces, also below 12 and
\* negative, the note index lies in 0..11 and octave * 12 + index + 12 is the
\* note number; note number 60 is C in octave 4 and 69 is A in octave 4.
C18_NoteNumberSplitsIntoOctaveAndIndex ==
    call.op = "findClosestNote" =>
        LET names == IF call.useFlats THEN NOTES_FLAT ELSE NOTES_SHARP
            r == Get(ret)
        IN  /\ \E index \in 0..11 :
                  /\ names[index + 1] = r.noteName
                  /\ r.octave * 12 + index + 12 = NoteNumber
            /\ r.note = r.noteName \o ToString(r.octave)
            /\ NoteNumber = 60 => (r.noteName = "C" /\ r.octave = 4)
            /\ NoteNumber = 69 => (r.noteName = "A" /\ r.octave = 4)

\* a frequency with a negative note number was mapped
C18_Witness ==
    /\ call.op = "findClosestNote"
    /\ NoteNumber < 0
    /\ Get(ret).octave < -1
    /\ Get(ret).noteName # "C"


\* ---------------------------------------------------------------------------
\* Claim about the tuning status, checked under SpecTuning

\* C19: every result detectNote returns, for a confirmed note and for a locked
\* note held against a differing frame, has the tuning status flat exactly when
\* its cents are below -5, sharp exactly when they are above 5, and in-tune
\* otherwise.
C19_TuningStatusFollowsCents ==
    (call.op = "detectNote" /\ ret # None) =>
        /\ Get(ret).tuningStatus = "flat" <=> Get(ret).cents < -5
        /\ Get(ret).tuningStatus = "sharp" <=> Get(ret).cents > 5
        /\ Get(ret).tuningStatus = "in-tune" <=>
               (Get(ret).cents >= -5 /\ Get(ret).cents <= 5)

\* a locked note is held against a differing frame and the result is flat
C19_Witness ==
    /\ LastCallQualified
    /\ ret # None
    /\ noteHoldCounter = 1
    /\ history[Len(history)].mapped # Get(ret).note
    /\ Get(ret).tuningStatus = "flat"
    /\ Get(ret).cents < -50


\* ---------------------------------------------------------------------------
\* Claim about the round trip, checked under SpecRoundTrip

SameCandidateAgain ==
    /\ call.op = "detectNote"
    /\ call'.op = "detectNote"
    /\ call'.frequency = call.frequency
    /\ call'.referenceFreq = call.referenceFreq
    /\ call'.useFlats = call.useFlats

\* the call made in this step gives a candidate of the locked note
CandidateOfLockedNote ==
    /\ call'.op = "detectNote"
    /\ call'.frequency > 0
    /\ findClosestNote(call'.frequency, call'.referenceFreq, call'.useFlats).note
           = Get(lastValidNoteInfo).note

\* C21 as stated: once the detector is locked, a further call with the same
\* candidate frequency returns the note name and octave of the call before it,
\* with isLocked true.
C21_SameCandidateKeepsNote ==
    [][(lastValidNoteInfo # None /\ ret # None /\ SameCandidateAgain)
           => /\ ret' # None
              /\ Get(ret').noteName = Get(ret).noteName
              /\ Get(ret').octave = Get(ret).octave
              /\ Get(ret').isLocked]_vars

\* C21: once the detector is locked and no differing reading is being counted
\* (the smoothed frequency maps to the locked note), every call with a candidate
\* of the locked note returns the name and octave of the locked note with isLocked
\* true, and leaves the detector locked on that note with nothing counted.
C21_SteadyCandidateKeepsNote ==
    [][(lastValidNoteInfo # None /\ noteHoldCounter = 0 /\ CandidateOfLockedNote)
           => /\ ret' # None
              /\ Get(ret').noteName = Get(lastValidNoteInfo).noteName
              /\ Get(ret').octave = Get(lastValidNoteInfo).octave
              /\ Get(ret').isLocked
              /\ lastValidNoteInfo' # None
              /\ Get(lastValidNoteInfo').note = Get(lastValidNoteInfo).note
              /\ noteHoldCounter' = 0]_vars

\* a full buffer holding readings of A4 and of A#4, locked on A4, was given
\* 428 Hz twice in a row, and A4 came back
C21_Witness ==
    /\ call.op = "detectNote"
    /\ call.frequency = Hz(428)
    /\ Len(history) = 2
    /\ history[1].mapped = "A4"
    /\ history[1].returned = Some("A4")
    /\ history[2].returned = Some("A4")
    /\ Len(frequencyBuffer) = bufferSize
    /\ \E i \in 1..bufferSize : frequencyBuffer[i] = Hz(466)
    /\ \E i \in 1..bufferSize : frequencyBuffer[i] = Hz(452)
    /\ noteHoldCounter = 0
    /\ Get(ret).isLocked


\* ---------------------------------------------------------------------------
\* Claim about isLocked, checked under SpecLocked

\* isNoteLocked, signalDetected, currentNote != null and tuningStatus != null
\* have one truth value
DisplayFlagsAgree ==
    /\ state.isNoteLocked = state.signalDetected
    /\ state.signalDetected = (state.currentNote # None)
    /\ (state.currentNote # None) = (state.tuningStatus # None)

\* this step is a frame in which analyzeAudio called detectNote
DetectorCalled == call'.op = "detectNote" /\ lastOp'.op = "analyzeAudio"

\* C22: a result of detectNote is returned exactly when the detector holds a
\* confirmed locked note after the call, and then has isLocked = true; a frame
\* whose candidate is not confirmed (detectNote returns null) shows nothing new;
\* and in every reachable state of useTuner isNoteLocked, signalDetected,
\* currentNote != null and tuningStatus != null have the same truth value.
C22_IsLockedMeansConfirmed ==
    /\ []DisplayFlagsAgree
    /\ [][DetectorCalled =>
              /\ (ret' # None) = (lastValidNoteInfo' # None)
              /\ ret' # None => /\ Get(ret').isLocked
                                /\ state'.isNoteLocked
                                /\ state'.currentNote = Some(Get(ret').note)
              /\ ret' = None => state' = state]_vars

\* a frame locked the detector on A4 and shows it as locked, after a frame whose
\* candidate was not confirmed and showed nothing
C22_Witness ==
    /\ call.op = "detectNote"
    /\ lastOp.op = "analyzeAudio"
    /\ ret # None
    /\ Get(ret).isLocked
    /\ Get(ret).note = "A4"
    /\ Len(frequencyBuffer) = 2
    /\ state.isNoteLocked
    /\ state.signalDetected
    /\ state.currentNote = Some("A4")
    /\ state.tuningStatus # None


\* ---------------------------------------------------------------------------
\* Claim about degenerate frequencies, checked under SpecDegenerate

\* zero, negative, NaN or infinite
Degenerate(x) == ~x.fin \/ x.v <= 0

\* C23: for a frequency that is zero, negative, NaN or infinite findClosestNote
\* returns the unknown-note result (note "?", noteName "?", octave 0, cents 0)
\* and takes no name from the note alphabets; every other frequency gets a name
\* of the alphabets.
C23_DegenerateFrequencyIsUnknownNote ==
    call.op = "findClosestNoteOfNumber" =>
        IF Degenerate(call.frequency)
        THEN /\ Get(ret).note = "?"
             /\ Get(ret).noteName = "?"
             /\ Get(ret).octave = 0
             /\ Get(ret).cents = 0
             /\ Get(ret).frequency = call.frequency
        ELSE \E i \in 1..12 : Get(ret).noteName \in {NOTES_SHARP[i], NOTES_FLAT[i]}

\* findClosestNote was given NaN and returned the unknown note
C23_Witness ==
    /\ call.op = "findClosestNoteOfNumber"
    /\ call.frequency = NaN
    /\ Get(ret).note = "?"
    /\ Get(ret).octave = 0
    /\ Get(ret).cents = 0


\* ---------------------------------------------------------------------------
\* More claims about useTuner (adaptive-threshold revision), checked under
\* SpecAdaptive

TwiceStabilityBonus ==
    (IF 2 * refs.stableTuningCounterRef > STABLE_TUNING_THRESHOLD THEN 3 ELSE 0)
    + (IF refs.lockedNoteTimeRef = "long" THEN 2 ELSE 0)

\* the differing frames required to switch to a note with the given count, for a
\* nearby note and for any other note
RequiredNearby(note) ==
    adaptiveThreshold(2 * NEARBY_NOTE_CHANGE_THRESHOLD + TwiceStabilityBonus,
                      refs.noteDetectionCounterRef[note],
                      TotalDetections(refs.noteDetectionCounterRef))

RequiredOther(note) ==
    adaptiveThreshold(2 * NOTE_CHANGE_THRESHOLD + TwiceStabilityBonus,
                      refs.noteDetectionCounterRef[note],
                      TotalDetections(refs.noteDetectionCounterRef))

\* C25: while frames that differ from the locked note are being counted, the
\* number of differing frames required to switch to the candidate is, for the
\* same stability bonus and consistency factor, strictly larger for a nearby
\* candidate than for any other, and it is never below 2.
C25_NearbyNoteNeedsMoreFrames ==
    (refs.currentLockedNoteRef # None /\ refs.noteChangeCounterRef >= 1) =>
        \A note \in DOMAIN refs.noteDetectionCounterRef :
            (Some(note) # refs.currentLockedNoteRef
             /\ refs.noteDetectionCounterRef[note] >= 1)
            => /\ RequiredNearby(note) > RequiredOther(note)
               /\ RequiredOther(note) >= 2


\* ---------------------------------------------------------------------------
\* Claim about isCloseNote, checked under SpecClose

\* C26: isCloseNote returns true exactly when the two notes, each a name with
\* its octave in either spelling, are at most 2 semitones apart in pitch, also
\* when they carry the same or a neighbouring letter in different octaves.
C26_CloseMeansWithinTwoSemitones ==
    call.op = "isCloseNote" => (Get(ret) = (call.semitones <= 2))


\* C27: once the differing frames have reached the adaptive threshold the locked
\* note is switched exactly once, to the candidate that reached it: while that
\* deferred switch is pending no frame brings about a second switch, so at most
\* one switch is pending at any time.
C27_OneSwitchPerThreshold == Len(pending) <= 1


\* the stability counters are at zero
CountersCleared ==
    /\ refs.noteChangeCounterRef = 0
    /\ refs.initialDetectionCounterRef = 0
    /\ refs.stableTuningCounterRef = 0
    /\ TotalDetections(refs.noteDetectionCounterRef) = 0

\* C28: once resetDisplayToDefault has run there is no locked note and the
\* stability counters are zero, and only a frame of the analysis loop locks a
\* note again: no callback scheduled before the reset sets a locked note or a
\* counter after it.
C28_ResetStaysUntilNewFrames ==
    [][/\ lastOp'.op = "unmount" =>
              (refs'.currentLockedNoteRef = None /\ CountersCleared')
       /\ (refs.currentLockedNoteRef = None /\ CountersCleared
               /\ lastOp'.op # "analyze")
              => (refs'.currentLockedNoteRef = None /\ CountersCleared')]_vars


\* ---------------------------------------------------------------------------
\* Claims about the timers of useTuner (median-filter revision), checked under
\* SpecTimers

\* the last step was an analysed frame with signal
SignalFrame ==
    lastOp.op = "analyzeAudio" /\ lastOp.analysed /\ lastOp.rms > SIGNAL_THRESHOLD

\* C29: at most one hold timer is in the table of timers at any time and it is
\* the one signalHoldTimerRef names; a frame with signal leaves none pending; so
\* the hold timer resets the display and the detector only when more than
\* SIGNAL_HOLD_TIME / ANALYSIS_INTERVAL silent frames in a row have been analysed
\* since the last frame with signal.
C29_OneHoldTimerCancelledBySignal ==
    /\ [](/\ Len(HoldTimers(pending)) <= 1
          /\ HoldTimers(pending) = (IF refs.signalHoldTimerRef = None THEN <<>>
                                    ELSE <<HoldTimer(Get(refs.signalHoldTimerRef))>>)
          /\ SignalFrame => HoldTimers(pending) = <<>>)
    /\ [][lastOp'.op = "holdTimer"
              => /\ silentRun > HoldFrames
                 /\ Detector' = resetDetector
                 /\ IdleReading']_vars

\* a frame with signal has cleared a hold timer that was pending while A4 was on
\* display, and the note stays
C29_Witness ==
    /\ SignalFrame
    /\ call.op = "analyzeAudio"
    /\ call.cleared
    /\ pending = <<IntervalTimer>>
    /\ refs.signalHoldTimerRef = None
    /\ state.currentNote = Some("A4")


C31_CleanupLeavesNoStream ==
    ~mounted => /\ ~analyzer.stream
                /\ ~analyzer.audioContext
                /\ ~analyzer.isInitialized


\* ---------------------------------------------------------------------------
\* Claim about detectPitchYIN, checked under SpecYin

\* the lags from tauMin up to tauMax of the last call
YinRange ==
    tauMin(call.sampleRate)..(tauMax(Len(call.yinBuffer), call.sampleRate) - 1)

YinBelow == {t \in YinRange : YinAt(call.yinBuffer, t) < threshold}

\* the frequency returned is a pitch
YinPitch ==
    \/ Get(ret).frequency.num > 0 /\ Get(ret).frequency.den > 0
    \/ Get(ret).frequency.num < 0 /\ Get(ret).frequency.den < 0

YinNoPitch == Get(ret).frequency.num = 0 /\ Get(ret).bestTau = -1

\* C32: a frame with RMS below SIGNAL_THRESHOLD gives 0 and no lag; otherwise,
\* when some lag of [tauMin, tauMax) is below the threshold, the lag chosen is
\* reached from the first such lag by strictly falling CMNDF values and is a local
\* minimum; when none is, the lag chosen is the first one with the least CMNDF
\* value of the range if that value is at most 0.5, and else the result is 0.
C32_LagSelection ==
    call.op = "detectPitchYIN" =>
        LET y == call.yinBuffer
            chosen == Get(ret).bestTau
            first == CHOOSE t \in YinBelow : \A u \in YinBelow : t <= u
            least == CHOOSE t \in YinRange :
                         \A u \in YinRange :
                             \/ YinAt(y, t) < YinAt(y, u)
                             \/ YinAt(y, t) = YinAt(y, u) /\ t <= u
        IN  IF call.rms < SIGNAL_THRESHOLD THEN YinNoPitch
            ELSE IF YinBelow # {} THEN
                /\ YinPitch
                /\ chosen \in YinRange
                /\ chosen >= first
                /\ \A t \in first..(chosen - 1) : YinAt(y, t + 1) < YinAt(y, t)
                /\ (chosen + 1) \in YinRange => YinAt(y, chosen + 1) >= YinAt(y, chosen)
            ELSE IF YinRange # {} /\ YinAt(y, least) <= fallbackLimit THEN
                /\ YinPitch
                /\ chosen = least
            ELSE YinNoPitch

\* the first lag below the threshold was 3 and the walk went on to lag 4, where
\* the dip ends
C32_Witness ==
    /\ call.op = "detectPitchYIN"
    /\ call.rms = SIGNAL_THRESHOLD
    /\ call.yinBuffer = <<100, 100, 50, 9, 5, 10, 51>>
    /\ call.sampleRate = 8000
    /\ Get(ret).bestTau = 4
    /\ YinPitch


\* ---------------------------------------------------------------------------
\* Claims about the results of detectNote, checked under SpecSteady

\* the last call returned the note its smoothed frequency mapped to
ReturnedMappedNote ==
    /\ call.op = "detectNote"
    /\ ret # None
    /\ history # <<>>
    /\ history[Len(history)].returned = Some(history[Len(history)].mapped)

\* C33 as stated: every result detectNote returns has cents from -50 to 50.
C33_CentsWithinHalfSemitone ==
    (call.op = "detectNote" /\ ret # None) => Abs(Get(ret).cents) <= 50

\* C33, amended: every result that names the note the smoothed frequency maps to
\* has cents from -50 to 50.
C33_MappedNoteCentsWithinHalfSemitone ==
    ReturnedMappedNote => Abs(Get(ret).cents) <= 50

\* A#4 was returned for a smoothed frequency of 453 Hz, 50 cents below it
C33_Witness ==
    /\ ReturnedMappedNote
    /\ Get(ret).note = "A#4"
    /\ Get(ret).frequency = Hz(453)
    /\ Get(ret).cents = -50


\* ---------------------------------------------------------------------------
\* Claims about the smoothing of detectNote, checked under SpecDetector

\* C34: whenever detectNote returns the note its smoothed frequency maps to (a
\* note it locks or confirms), some candidate in the buffer maps to that note.
C34_ConfirmedNoteHasCandidate ==
    ReturnedMappedNote =>
        \E i \in 1..Len(frequencyBuffer) :
            findClosestNote(frequencyBuffer[i], call.referenceFreq,
                            call.useFlats).note = Get(ret).note


\* C35: the confidence of every result detectNote returns is a fraction from 0
\* to 1 and is 1 only when the buffer holds bufferSize candidates; it is the
\* buffer's fill ratio when the octave-corrected candidate is within the tolerance
\* of the median of the readings before it, or fewer than two readings came before
\* it, and half the fill ratio otherwise.
C35_ConfidenceWithinUnit ==
    /\ []((call.op = "detectNote" /\ ret # None) =>
            LET c == Get(ret).confidence
            IN  /\ c.den > 0
                /\ 0 <= c.num
                /\ c.num <= c.den
                /\ c.num = c.den => Len(frequencyBuffer) = bufferSize)
    /\ [][(call'.op = "detectNote" /\ ret' # None) =>
            LET c == Get(ret').confidence
                corrected == correctOctaveError(call'.frequency, frequencyBuffer)
            IN  IF WithinTolerance(corrected, frequencyBuffer)
                THEN c.num * bufferSize = Len(frequencyBuffer') * c.den
                ELSE 2 * c.num * bufferSize = Len(frequencyBuffer') * c.den]_vars

\* a result with confidence 1 from a full buffer
C35_Witness ==
    /\ call.op = "detectNote"
    /\ ret # None
    /\ Get(ret).confidence.num = Get(ret).confidence.den
    /\ Len(frequencyBuffer) = bufferSize


\* ---------------------------------------------------------------------------
\* Claims about Metronome inside TapTempo, checked under SpecMetronome

\* C36: every click advances the beat counter by one modulo beatsPerMeasure, and
\* the counter changes otherwise only by going to 0 when the metronome is toggled
\* (to 1 when the first click is played with the start) or in the render that
\* follows a change of isPlaying or of the time signature; no other render and no
\* call of onStateChange changes it.
C36_BeatCounterAdvancesByOne ==
    [][/\ lastOp'.op = "playClick"
            => refs'.beatCountRef = (refs.beatCountRef + 1) % refs.beatsPerMeasureRef
       /\ (lastOp'.op # "playClick" /\ refs'.beatCountRef # refs.beatCountRef)
            => \/ /\ lastOp'.op = "toggleMetronome"
                  /\ refs'.beatCountRef \in {0, 1 % refs.beatsPerMeasureRef}
               \/ /\ lastOp'.op = "render"
                  /\ refs'.beatCountRef = 0
                  /\ \/ state.m.timeSignature # pending.m.timeSignature
                     \/ state.m.isPlaying # pending.m.isPlaying]_vars

\* C37: bpmRef is within 40..240 in every state, and once the components are
\* rendered displayBpm is the tempo TapTempo holds, clamped or not (120 when it
\* holds none), and bpmRef that tempo clamped to 40..240.
C37_SchedulerTempoWithinRange ==
    /\ refs.bpmRef >= MIN_BPM
    /\ refs.bpmRef <= MAX_BPM
    /\ Rendered =>
          /\ state.m.displayBpm = (IF state.tap.bpm = None THEN DEFAULT_BPM
                                   ELSE Get(state.tap.bpm))
          /\ refs.bpmRef = metronomeValidBpm(state.m.displayBpm)

\* a tempo of 300 tapped: the metronome runs at 240 and the delay calculator
\* uses 300
C37_Witness ==
    /\ Rendered
    /\ state.tap.bpm = Some(300)
    /\ state.m.displayBpm = 300
    /\ state.m.bpm = MAX_BPM
    /\ refs.bpmRef = MAX_BPM
    /\ refs.isPlayingRef


\* ---------------------------------------------------------------------------
\* Claims about the taps of TapTempo, checked under SpecTaps

\* b is an integer nearest to 60000 divided by the mean interval of tapTimes,
\* (last - first) / (number of taps - 1); Infinity when the mean is zero
NearestToTempo(b, tapTimes) ==
    LET d == tapTimes[Len(tapTimes)] - tapTimes[1]
        k == Len(tapTimes) - 1
    IN IF d = 0 THEN b = Some(Infinity)
       ELSE /\ b # None
            /\ 2 * Get(b) * d - d <= 2 * MS_PER_MINUTE * k
            /\ 2 * MS_PER_MINUTE * k <= 2 * Get(b) * d + d

\* C38: at most 8 tap times are stored. A tap more than 2000 ms after the
\* previous one leaves only itself stored and no tempo; any other tap is added
\* after the stored ones, of which the last 8 stay, and with 2 or more stored
\* the tempo is 60000 over their mean interval, rounded to a nearest integer.
C38_TapTempoFromLastEightTaps ==
    /\ [](Len(state.taps) <= MAX_TAPS)
    /\ [][lastOp'.op = "handleTap" =>
            LET now == call'.now
                taps == state.taps
                newTaps == state'.taps
                n == Len(newTaps)
            IN IF taps # <<>> /\ now - taps[Len(taps)] > TAP_RESET_MS
               THEN newTaps = <<now>> /\ state'.bpm = None
               ELSE /\ n = IF Len(taps) < MAX_TAPS THEN Len(taps) + 1 ELSE MAX_TAPS
                    /\ newTaps[n] = now
                    /\ \A i \in 1..(n - 1) : newTaps[i] = taps[Len(taps) + 1 - n + i]
                    /\ n >= 2 => NearestToTempo(state'.bpm, newTaps)]_vars

\* nine taps a quarter of a second apart: the first one is gone and the tempo
\* is 240
C38_Witness ==
    /\ lastOp.op = "handleTap"
    /\ Len(state.taps) = MAX_TAPS
    /\ state.taps[1] = 250
    /\ state.taps[MAX_TAPS] = 2000
    /\ state.bpm = Some(240)


====
